---- MODULE Spec2Model ----
(***************************************************************************)
(* State-machine model of the ArchyTask webview outline engine             *)
(* (media/main.js), of the two conversions of src/parser.ts, and of the    *)
(* host's saving and reloading of the task file (src/SidebarProvider.ts,   *)
(* src/extension.ts).                                                      *)
(*                                                                         *)
(* Lists are TLA+ sequences (1-based); every index of the program is kept  *)
(* 0-based as in the source, with -1 for "none", and read through At.      *)
(* One action models one event handler, run to completion.                 *)
(***************************************************************************)
EXTENDS Integers, Sequences, FiniteSets, TLC

VARIABLES
    items,                      \* main.js:21
    archivedItems,              \* main.js:22
    archivedSelectedIndices,    \* main.js:23
    archivedActiveIndex,        \* main.js:24
    archivedAnchorIndex,        \* main.js:25
    history,                    \* main.js:26  past stack, newest last
    future,                     \* main.js:27  redo stack, newest last
    activeIndex,                \* main.js:28
    anchorIndex,                \* main.js:29
    selectedIndices,            \* main.js:30
    editingId,                  \* main.js:31
    isNewItem,                  \* main.js:32
    isUndoingRedoing,           \* main.js:34
    isArchiveHidden,            \* main.js:35
    clipboard,                  \* main.js:37
    isArchiveActive,            \* main.js:38
    isArchiveHeaderSelected,    \* main.js:39
    threw,                      \* the last handler ended in an uncaught exception
    lastOp,                     \* name of the last handler that ran
    steps,                      \* number of handlers run so far
    mark,                       \* observer of the history laws (see Observe*)
    conv,                       \* parser.ts: a text or a pair of lists under conversion
    provider,                   \* SidebarProvider.ts: the fields of the provider
    disk,                       \* the task file, its watcher and the pending timers
    probe                       \* observer of the host's saves and reloads

webviewVars == << items, archivedItems, archivedSelectedIndices, archivedActiveIndex,
                  archivedAnchorIndex, history, future, activeIndex, anchorIndex,
                  selectedIndices, editingId, isNewItem, isUndoingRedoing,
                  isArchiveHidden, clipboard, isArchiveActive, isArchiveHeaderSelected,
                  threw, lastOp, steps, mark >>

outerVars == << conv, provider, disk, probe >>

vars == << webviewVars, outerVars >>

-----------------------------------------------------------------------------
(* Program constants                                                       *)

MAX_HISTORY_SIZE == 50
INDENT_PARENT == 0
INDENT_CHILD == 1
INDENT_MAX == 1
NullId == 0

(* Bounds of the model                                                     *)

MaxSteps == 5
MaxLoadedSteps == 4
MaxGrow == 53

-----------------------------------------------------------------------------
(* Sequences and sets                                                      *)

Min(S) == CHOOSE x \in S : \A y \in S : x <= y
Max(S) == CHOOSE x \in S : \A y \in S : x >= y

Range(s) == { s[k] : k \in 1..Len(s) }

Has(list, i) == i >= 0 /\ i < Len(list)
At(list, i) == list[i + 1]
Idx(list) == 0 .. (Len(list) - 1)

\* list.slice(from, to)
Slice(list, from, to) ==
    LET a == IF from < 0 THEN 0 ELSE IF from > Len(list) THEN Len(list) ELSE from
        b == IF to > Len(list) THEN Len(list) ELSE to
    IN  IF b <= a THEN << >> ELSE SubSeq(list, a + 1, b)

\* list.splice(at, count): the list without count elements from index at
RemoveAt(list, at, count) == Slice(list, 0, at) \o Slice(list, at + count, Len(list))

\* list.splice(at, 0, ...ins): an index past the end inserts at the end
InsertAt(list, at, ins) ==
    LET p == IF at > Len(list) THEN Len(list) ELSE at
    IN  Slice(list, 0, p) \o ins \o Slice(list, p, Len(list))

\* the elements at the indices outside drop, order kept
RECURSIVE Without(_, _)
Without(list, drop) ==
    IF list = << >> THEN << >>
    ELSE LET n == Len(list)
             front == Without(SubSeq(list, 1, n - 1), drop)
         IN  IF (n - 1) \in drop THEN front ELSE Append(front, list[n])

\* Array.from(set).sort((a, b) => a - b)
RECURSIVE SortedAsc(_)
SortedAsc(S) ==
    IF S = {} THEN << >> ELSE LET m == Min(S) IN << m >> \o SortedAsc(S \ {m})

Reverse(s) == [k \in 1..Len(s) |-> s[Len(s) + 1 - k]]

\* itemList.findIndex(i => i.id === id)
IndexOfId(list, id) ==
    LET hits == { i \in Idx(list) : At(list, i).id = id }
    IN  IF hits = {} THEN -1 ELSE Min(hits)

IdsOf(list) == { list[k].id : k \in 1..Len(list) }

-----------------------------------------------------------------------------
(* Items                                                                   *)

Todo(id, title, indent, checked) ==
    [id |-> id, type |-> "todo", title |-> title, indent |-> indent,
     isChecked |-> checked, note |-> ""]

Heading(id, title) ==
    [id |-> id, type |-> "heading", title |-> title, indent |-> 0,
     isChecked |-> FALSE, note |-> ""]

\* Texts a user leaves in the title editor
TypedTitles == { "", "t", "Archive", " t" }

\* String.prototype.trim on those texts
Trim(text) == IF text = " t" THEN "t" ELSE text

\* ItemUtils.findArchiveIndex
findArchiveIndex(itemList) ==
    LET hits == { i \in Idx(itemList) :
                    At(itemList, i).type = "heading" /\ At(itemList, i).title = "Archive" }
    IN  IF hits = {} THEN -1 ELSE Min(hits)

\* ItemUtils.isArchiveHeading (an undefined item is not one)
isArchiveHeading(itemList, i) ==
    Has(itemList, i) /\ At(itemList, i).type = "heading" /\ At(itemList, i).title = "Archive"

\* index of the first item at or after from that ends a run of children
ChildRunEnd(itemList, from) ==
    Min({ i \in from .. (Len(itemList) - 1) :
            At(itemList, i).indent <= INDENT_PARENT \/ At(itemList, i).type = "heading" }
        \cup { Len(itemList) })

\* index of the first heading at or after from
SectionEnd(itemList, from) ==
    Min({ i \in from .. (Len(itemList) - 1) : At(itemList, i).type = "heading" }
        \cup { Len(itemList) })

\* ItemUtils.getChildCount
getChildCount(itemList, parentIndex) ==
    IF ~Has(itemList, parentIndex) THEN 0
    ELSE IF At(itemList, parentIndex).indent # INDENT_PARENT
            \/ At(itemList, parentIndex).type = "heading" THEN 0
    ELSE ChildRunEnd(itemList, parentIndex + 1) - (parentIndex + 1)

\* ItemUtils.getItemWithChildren: the count
getItemWithChildrenCount(itemList, index) ==
    IF ~Has(itemList, index) THEN 0
    ELSE IF At(itemList, index).type = "heading"
         THEN SectionEnd(itemList, index + 1) - index
    ELSE IF At(itemList, index).indent = INDENT_PARENT
         THEN ChildRunEnd(itemList, index + 1) - index
    ELSE 1

\* ItemUtils.getItemWithChildren: the items
getItemWithChildren(itemList, index) ==
    Slice(itemList, index, index + getItemWithChildrenCount(itemList, index))

\* ItemUtils.isParentSelected
isParentSelected(itemList, childIndex, selectedSet) ==
    IF ~Has(itemList, childIndex) THEN FALSE
    ELSE IF At(itemList, childIndex).indent # INDENT_CHILD THEN FALSE
    ELSE LET stops == { i \in 0 .. (childIndex - 1) :
                          At(itemList, i).indent = INDENT_PARENT
                          \/ At(itemList, i).type = "heading" }
         IN  IF stops = {} THEN FALSE
             ELSE LET j == Max(stops)
                  IN  At(itemList, j).indent = INDENT_PARENT /\ j \in selectedSet

\* ItemUtils.collectItemsToProcess: the indices kept, ascending
collectIndicesToProcess(itemList, selectedSet, excludeHeadings) ==
    SortedAsc({ i \in selectedSet :
        /\ Has(itemList, i)
        /\ ~(excludeHeadings /\ At(itemList, i).type = "heading")
        /\ ~(At(itemList, i).indent = INDENT_CHILD
             /\ isParentSelected(itemList, i, selectedSet)) })

\* ItemUtils.collectItemsToProcess
collectItemsToProcess(itemList, selectedSet, excludeHeadings) ==
    LET ix == collectIndicesToProcess(itemList, selectedSet, excludeHeadings)
    IN  [k \in 1..Len(ix) |-> At(itemList, ix[k])]

\* ItemUtils.hasParentAbove (for a position within the list or at its end)
hasParentAbove(itemList, position) ==
    LET stops == { i \in 0 .. (position - 1) :
                     Has(itemList, i)
                     /\ (At(itemList, i).indent = INDENT_PARENT
                         \/ At(itemList, i).type = "heading") }
    IN  IF stops = {} THEN FALSE
        ELSE At(itemList, Max(stops)).type # "heading"

-----------------------------------------------------------------------------
(* Identifiers.  generateId (main.js:54) returns a value no live item      *)
(* carries; the model takes the smallest numbers not in use anywhere.      *)

RECURSIVE IdsOfStack(_)
IdsOfStack(stack) ==
    IF stack = << >> THEN {}
    ELSE IdsOf(stack[1].items) \cup IdsOf(stack[1].archivedItems)
         \cup IdsOfStack(Tail(stack))

UsedIds ==
    IdsOf(items) \cup IdsOf(archivedItems) \cup IdsOf(clipboard)
    \cup IdsOfStack(history) \cup IdsOfStack(future) \cup { editingId }

\* what a handler that has called saveState() must avoid: save() emptied the
\* redo stack
UsedIdsAfterSave ==
    IdsOf(items) \cup IdsOf(archivedItems) \cup IdsOf(clipboard)
    \cup IdsOfStack(history) \cup { editingId }

\* the n smallest identifiers outside used
generateIds(used, n) ==
    LET cand == (1 .. (Cardinality(used) + n)) \ used
    IN  [k \in 1..n |-> CHOOSE x \in cand : Cardinality({ y \in cand : y < x }) = k - 1]

\* ItemUtils.deepCopyItems(list, false): the copies keep their ids
deepCopyKeepIds(list, used) == list

\* ItemUtils.deepCopyItems(list, true)
deepCopyNewIds(list, used) ==
    LET ids == generateIds(used, Len(list))
    IN  [k \in 1..Len(list) |-> [list[k] EXCEPT !.id = ids[k]]]

-----------------------------------------------------------------------------
(* SelectionManager and selectItem                                         *)

Sel(s, a, n) == [selectedIndices |-> s, activeIndex |-> a, anchorIndex |-> n]

CurSel == Sel(selectedIndices, activeIndex, anchorIndex)

\* SelectionManager.clear
SelClear == Sel({}, -1, -1)

\* SelectionManager.setSingle
setSingle(index) == Sel(IF index >= 0 THEN { index } ELSE {}, index, index)

\* findSelectionEndpoint
findSelectionEndpoint(itemList, anchor, targetIndex) ==
    IF anchor < targetIndex
    THEN LET hs == { i \in (anchor + 1) .. targetIndex : At(itemList, i).type = "heading" }
         IN  IF hs = {} THEN targetIndex ELSE Min(hs) - 1
    ELSE IF anchor > targetIndex
    THEN LET hs == { i \in targetIndex .. (anchor - 1) : At(itemList, i).type = "heading" }
         IN  IF hs = {} THEN targetIndex ELSE Max(hs) + 1
    ELSE targetIndex

\* handleExtendSelection reads items[anchorIndex] and every item between the
\* anchor and the target: a stale anchor makes it throw
extendThrows(itemList, sel, index, isKeyboard) ==
    LET anchor == IF sel.anchorIndex = -1
                  THEN (IF isKeyboard \/ sel.selectedIndices = {}
                        THEN index ELSE Min(sel.selectedIndices))
                  ELSE sel.anchorIndex
    IN  ~Has(itemList, anchor)

\* handleExtendSelection
handleExtendSelection(itemList, sel, index, isKeyboard) ==
    IF isKeyboard
    THEN LET anchor == IF sel.anchorIndex = -1 THEN index ELSE sel.anchorIndex
             start == IF anchor < index THEN anchor ELSE index
             end == IF anchor < index THEN index ELSE anchor
         IN  Sel({ i \in start .. end : At(itemList, i).type # "heading" }, index, anchor)
    ELSE LET anchor == IF sel.anchorIndex = -1
                       THEN (IF sel.selectedIndices # {}
                             THEN Min(sel.selectedIndices) ELSE index)
                       ELSE sel.anchorIndex
             kept == IF At(itemList, anchor).type = "heading"
                     THEN sel.selectedIndices \ { anchor }
                     ELSE sel.selectedIndices
             actualEnd == findSelectionEndpoint(itemList, anchor, index)
             selStart == IF anchor < actualEnd THEN anchor ELSE actualEnd
             selEnd == IF anchor < actualEnd THEN actualEnd ELSE anchor
         IN  Sel(kept \cup { i \in selStart .. selEnd : At(itemList, i).type # "heading" },
                 actualEnd, anchor)

\* handleToggleSelection
handleToggleSelection(itemList, sel, index) ==
    IF At(itemList, index).type # "heading"
    THEN IF index \in sel.selectedIndices
         THEN Sel(sel.selectedIndices \ { index },
                  IF sel.activeIndex = index THEN -1 ELSE sel.activeIndex,
                  sel.anchorIndex)
         ELSE Sel(sel.selectedIndices \cup { index }, index, index)
    ELSE setSingle(index)

\* selectItem(index): plain selection
selectItem(itemList, index) ==
    IF index < 0 \/ index >= Len(itemList) THEN SelClear ELSE setSingle(index)

\* SelectionManager.captureState
captureState(itemList, sel) ==
    [selectedIds |-> { At(itemList, i).id : i \in { j \in sel.selectedIndices : Has(itemList, j) } },
     activeItemId |-> IF sel.activeIndex >= 0 /\ Has(itemList, sel.activeIndex)
                      THEN At(itemList, sel.activeIndex).id ELSE NullId]

\* SelectionManager.restoreState
restoreState(itemList, sel, captured) ==
    LET found == IF captured.activeItemId = NullId THEN -1
                 ELSE IndexOfId(itemList, captured.activeItemId)
    IN  Sel({ i \in Idx(itemList) : At(itemList, i).id \in captured.selectedIds },
            IF found # -1 THEN found ELSE sel.activeIndex,
            sel.anchorIndex)

-----------------------------------------------------------------------------
(* HistoryManager                                                          *)

Snapshot(its, arch) == [items |-> its, archivedItems |-> arch]

\* a variant of HistoryManager.save without the shift() at MAX_HISTORY_SIZE
savedHistoryNoCap(hist, its, arch) == Append(hist, Snapshot(its, arch))

\* a variant of HistoryManager.undo that takes the oldest snapshot
undoTargetOldest(hist) == hist[1]

\* HistoryManager.undo: the snapshot that history.pop() returns
undoTarget(hist) == hist[Len(hist)]

\* a variant of HistoryManager.redo without its history.push
redoPastDropped(hist, its, arch) == hist

\* HistoryManager.redo: history.push of the current lists
redoPast(hist, its, arch) == Append(hist, Snapshot(its, arch))

\* HistoryManager.save: the past stack after it
savedHistory(hist, its, arch) ==
    LET pushed == Append(hist, Snapshot(its, arch))
    IN  IF Len(pushed) > MAX_HISTORY_SIZE THEN Tail(pushed) ELSE pushed

\* HistoryManager.popLast
popLast(hist) == IF Len(hist) > 0 THEN SubSeq(hist, 1, Len(hist) - 1) ELSE hist

\* HistoryManager._validateSelection: the active-list part
validateSelection(its, sel) ==
    LET a == IF sel.activeIndex >= Len(its)
             THEN (IF Len(its) > 0 THEN Len(its) - 1 ELSE -1)
             ELSE sel.activeIndex
    IN  Sel(IF a >= 0 THEN { a } ELSE {}, a, IF a >= 0 THEN a ELSE sel.anchorIndex)

\* HistoryManager._validateSelection: the archive part
validateArchiveSelection(arch, asel) ==
    LET a0 == IF asel.activeIndex >= Len(arch)
              THEN (IF Len(arch) > 0 THEN Len(arch) - 1 ELSE -1)
              ELSE asel.activeIndex
        valid == { i \in asel.selectedIndices : i < Len(arch) }
        a1 == IF a0 >= 0 THEN a0 ELSE IF valid # {} THEN Min(valid) ELSE a0
    IN  Sel(valid, a1, IF a1 >= 0 THEN a1 ELSE -1)

CurArchSel == Sel(archivedSelectedIndices, archivedActiveIndex, archivedAnchorIndex)

-----------------------------------------------------------------------------
(* Documents the host loads, parses and posts with 'update'                *)
(* (SidebarProvider._loadFromFile -> parseMarkdown), as sequences of lines *)

TodoLine(title, indent, checked) ==
    [kind |-> "todo", title |-> title, indent |-> indent, checked |-> checked]

HeadingLine(title) == [kind |-> "heading", title |-> title, indent |-> 0, checked |-> FALSE]

\* parseMarkdown: the loop over the lines from line k on
RECURSIVE parseFrom(_, _, _)
parseFrom(lines, k, inArchiveSection) ==
    IF k > Len(lines) THEN [items |-> << >>, archivedItems |-> << >>]
    ELSE IF lines[k].kind = "heading"
    THEN IF lines[k].title = "Archive" THEN parseFrom(lines, k + 1, TRUE)
         ELSE LET r == parseFrom(lines, k + 1, FALSE)
              IN  [r EXCEPT !.items = << Heading(0, lines[k].title) >> \o @]
    ELSE LET indent == IF lines[k].indent > 1 THEN 1 ELSE lines[k].indent
             r == parseFrom(lines, k + 1, inArchiveSection)
         IN  IF inArchiveSection
             THEN [r EXCEPT !.archivedItems =
                       << Todo(0, lines[k].title, indent, TRUE) >> \o @]
             ELSE [r EXCEPT !.items =
                       << Todo(0, lines[k].title, indent, lines[k].checked) >> \o @]

\* parseMarkdown
parseMarkdown(lines) == parseFrom(lines, 1, FALSE)

DocA == << HeadingLine("a"), TodoLine("t", 0, FALSE), TodoLine("t", 1, FALSE) >>

DocB == << TodoLine("t", 0, FALSE), TodoLine("t", 1, TRUE), HeadingLine("a"),
           TodoLine("t", 0, FALSE), HeadingLine("Archive"),
           TodoLine("t", 0, FALSE), TodoLine("t", 2, TRUE) >>

DocC == << TodoLine("t", 0, FALSE), HeadingLine("Archive"), TodoLine("t", 1, FALSE) >>

Docs == { DocA, DocB, DocC }

\* the items of a parsed document with the identifiers their constructors give
LoadDoc(doc, used) ==
    LET parsed == parseMarkdown(doc)
        all == deepCopyNewIds(parsed.items \o parsed.archivedItems, used)
    IN  [items |-> SubSeq(all, 1, Len(parsed.items)),
         archivedItems |-> SubSeq(all, Len(parsed.items) + 1, Len(all))]

-----------------------------------------------------------------------------
(* The task file as text (parser.ts).  A text is the sequence of lines     *)
(* that split('\n') gives, so a text that ends with a newline has an empty *)
(* last line.  A line is its leading white space, a marker and the rest;   *)
(* a note is a text.  Parsed items carry no id here: neither function      *)
(* reads it.                                                               *)

TextLine(lead, head, text) == [lead |-> lead, head |-> head, text |-> text]

\* the markers of a note block: three backquotes with and without "plane"
FencePlane == "fence plane"

Fence == "fence"

EmptyLine == TextLine(<< >>, "", "")

Tabs(n) == [k \in 1..n |-> "\t"]

Spaces(n) == [k \in 1..n |-> " "]

\* line.trim()
TrimLine(line) ==
    TextLine(<< >>, line.head, IF line.head = "" THEN Trim(line.text) ELSE line.text)

\* a string that is a text has a character that is not white space
NotBlank(text) == \E k \in 1..Len(text) : text[k].head # "" \/ Trim(text[k].text) # ""

\* currentNote.join('\n')
JoinLines(lines) == IF lines = << >> THEN << EmptyLine >> ELSE lines

\* new ItemHeading(title, order) / new ItemTodo(indent, title, order, isChecked)
ParsedHeading(title) ==
    [type |-> "heading", title |-> title, indent |-> 0, isChecked |-> FALSE,
     note |-> << EmptyLine >>]

ParsedTodo(indent, title, isChecked) ==
    [type |-> "todo", title |-> title, indent |-> indent, isChecked |-> isChecked,
     note |-> << EmptyLine >>]

\* trimmedLine.startsWith('## '): the marker with something after it that
\* trim() leaves
StartsWithHeading(line) == line.head = "## " /\ Trim(line.text) # ""

\* the indent of a todo line: its tabs or, without a tab, a quarter of its
\* leading spaces, at most 1
TodoIndent(indentStr) ==
    LET tabs == Cardinality({ k \in 1..Len(indentStr) : indentStr[k] = "\t" })
        indent == IF tabs > 0 THEN tabs ELSE Len(indentStr) \div 4
    IN  IF indent > 1 THEN 1 ELSE indent

ParseStart ==
    [items |-> << >>, archivedItems |-> << >>, currentNote |-> << >>,
     collectingNote |-> FALSE, lastList |-> "none", inArchiveSection |-> FALSE]

\* lastItem.note = currentNote.join('\n'); lastItem is the last element of
\* the list it was pushed to
NoteStored(st) ==
    LET note == JoinLines(st.currentNote)
    IN  IF st.lastList = "items"
        THEN [st EXCEPT !.items[Len(st.items)].note = note]
        ELSE IF st.lastList = "archivedItems"
        THEN [st EXCEPT !.archivedItems[Len(st.archivedItems)].note = note]
        ELSE st

\* parseMarkdown: one turn of the loop over the lines
ParseLine(st, line) ==
    IF line.head = FencePlane
    THEN [st EXCEPT !.collectingNote = TRUE, !.currentNote = << >>]
    ELSE IF st.collectingNote
    THEN IF line.head = Fence
         THEN [NoteStored(st) EXCEPT !.collectingNote = FALSE]
         ELSE [st EXCEPT !.currentNote = Append(@, TrimLine(line))]
    ELSE IF StartsWithHeading(line)
    THEN IF Trim(line.text) = "Archive"
         THEN [st EXCEPT !.inArchiveSection = TRUE]
         ELSE [st EXCEPT !.inArchiveSection = FALSE,
                         !.items = Append(@, ParsedHeading(Trim(line.text))),
                         !.lastList = "items"]
    ELSE IF line.head \in { "- [ ] ", "- [x] " }
    THEN LET todo == ParsedTodo(TodoIndent(line.lead), line.text, line.head = "- [x] ")
         IN  IF st.inArchiveSection
             THEN [st EXCEPT !.archivedItems = Append(@, [todo EXCEPT !.isChecked = TRUE]),
                             !.lastList = "archivedItems"]
             ELSE [st EXCEPT !.items = Append(@, todo), !.lastList = "items"]
    ELSE st

RECURSIVE ParseLines(_, _, _)
ParseLines(lines, i, st) ==
    IF i > Len(lines) THEN st ELSE ParseLines(lines, i + 1, ParseLine(st, lines[i]))

\* parseMarkdown on a text
parseContent(content) ==
    LET st == ParseLines(content, 1, ParseStart)
    IN  [items |-> st.items, archivedItems |-> st.archivedItems]

\* a stringifyItems that writes no note block
NoteBlockLeftOut(item) == << >>

\* the note block that stringifyItems writes after an item
NoteBlock(item) ==
    IF NotBlank(item.note)
    THEN << TextLine(Spaces(4), FencePlane, "") >>
         \o [k \in 1..Len(item.note) |->
                TextLine(Spaces(4) \o item.note[k].lead, item.note[k].head, item.note[k].text)]
         \o << TextLine(Spaces(4), Fence, "") >>
    ELSE << >>

\* stringifyItems: the lines of one active item
ItemLines(item) ==
    (IF item.type = "heading" THEN << TextLine(<< >>, "## ", item.title) >>
     ELSE << TextLine(Tabs(item.indent),
                      IF item.isChecked THEN "- [x] " ELSE "- [ ] ", item.title) >>)
    \o NoteBlock(item)

\* stringifyItems: the lines of one archived item
ArchivedLines(item) ==
    (IF item.type = "todo" THEN << TextLine(Tabs(item.indent), "- [x] ", item.title) >>
     ELSE << >>)
    \o NoteBlock(item)

RECURSIVE Flatten(_)
Flatten(lists) == IF lists = << >> THEN << >> ELSE lists[1] \o Flatten(Tail(lists))

\* stringifyItems; every line it writes ends with a newline
stringifyItems(itemList, archivedList) ==
    Flatten([k \in 1..Len(itemList) |-> ItemLines(itemList[k])])
    \o (IF archivedList # << >>
        THEN << TextLine(<< >>, "## ", "Archive") >>
             \o Flatten([k \in 1..Len(archivedList) |-> ArchivedLines(archivedList[k])])
        ELSE << >>)
    \o << EmptyLine >>

-----------------------------------------------------------------------------
(* Frames                                                                  *)

selVars == << selectedIndices, activeIndex, anchorIndex >>
archSelVars == << archivedSelectedIndices, archivedActiveIndex, archivedAnchorIndex >>
editVars == << editingId, isNewItem >>
histVars == << history, future >>
flagVars == << isUndoingRedoing, isArchiveHidden >>

SetSel(sel) ==
    /\ selectedIndices' = sel.selectedIndices
    /\ activeIndex' = sel.activeIndex
    /\ anchorIndex' = sel.anchorIndex

SetArchSel(sel) ==
    /\ archivedSelectedIndices' = sel.selectedIndices
    /\ archivedActiveIndex' = sel.activeIndex
    /\ archivedAnchorIndex' = sel.anchorIndex

\* saveState()
saveState ==
    IF isUndoingRedoing THEN UNCHANGED histVars
    ELSE /\ history' = savedHistory(history, items, archivedItems)
         /\ future' = << >>

\* Observer of the history laws.  trail holds the values of (items,
\* archivedItems) before each operation of the current run of snapshotting
\* operations (the newest MAX_HISTORY_SIZE of them), undone counts the undo
\* calls made since the run, pre holds (items, archivedItems, history, future)
\* as they were before an undo that was the last handler, or the last but one
\* when a redo followed it, early tells that every operation of the run took
\* its snapshot before it changed the lists.  In the session of SpecAbandon
\* phase is "added" and pre holds the same four values as they were before
\* an addItem that was the last handler.  In the session of SpecCancel phase
\* is "editing" while the editor of an existing item is open and pre holds
\* the same four values as they were when that editor was opened.
MarkIdle == [phase |-> "idle", trail |-> << >>, undone |-> 0, pre |-> << >>, early |-> TRUE]

\* this handler pushed a snapshot that is still on the past stack
Snapped ==
    /\ future' = << >>
    /\ history' # << >>
    /\ SubSeq(history', 1, Len(history') - 1) =
           (IF Len(history) = MAX_HISTORY_SIZE THEN Tail(history) ELSE history)

ObserveOp ==
    mark' = IF Snapped
            THEN LET run == Append(IF mark.phase = "ops" THEN mark.trail ELSE << >>,
                                   Snapshot(items, archivedItems))
                 IN  [phase |-> "ops",
                      trail |-> IF Len(run) > MAX_HISTORY_SIZE THEN Tail(run) ELSE run,
                      undone |-> 0, pre |-> << >>,
                      early |-> /\ (mark.phase = "ops" => mark.early)
                                /\ history'[Len(history')] = Snapshot(items, archivedItems)]
            ELSE IF << items', archivedItems', history', future' >>
                    = << items, archivedItems, history, future >>
            THEN [mark EXCEPT !.pre = << >>]
            ELSE MarkIdle

ObserveUndo ==
    mark' = LET before == IF lastOp' = "undo"
                          THEN << items, archivedItems, history, future >> ELSE << >>
            IN  IF mark.phase \in { "ops", "undos" } /\ mark.undone < Len(mark.trail)
                THEN [mark EXCEPT !.phase = "undos", !.undone = @ + 1, !.pre = before]
                ELSE [MarkIdle EXCEPT !.pre = before]

ObserveRedo == mark' = [MarkIdle EXCEPT !.pre = mark.pre]

\* a bounded session takes one more handler
Ready == steps < MaxSteps

TickSteps == steps' = steps + 1 /\ UNCHANGED outerVars

Tick(op) == TickSteps /\ lastOp' = op /\ ObserveOp

\* handleKeydown without its check of editingId
KeyboardOpenAlways == TRUE

\* KeyboardHandler.handleKeydown passes the key on
KeyboardOpen == editingId = NullId

\* render() shows the title input of the item being edited
EditorOpen == editingId # NullId /\ IndexOfId(items, editingId) # -1

\* nothing is under conversion, the host has not started
ConvIdle == [phase |-> "idle"]

ProviderIdle == [phase |-> "idle"]

DiskIdle == [phase |-> "idle"]

ProbeIdle == [phase |-> "idle"]

OuterIdle ==
    /\ conv = ConvIdle
    /\ provider = ProviderIdle
    /\ disk = DiskIdle
    /\ probe = ProbeIdle

\* the webview after its script has run
WebviewStart ==
    /\ items = << >>
    /\ archivedItems = << >>
    /\ archivedSelectedIndices = {}
    /\ archivedActiveIndex = -1
    /\ archivedAnchorIndex = -1
    /\ history = << >>
    /\ future = << >>
    /\ activeIndex = -1
    /\ anchorIndex = -1
    /\ selectedIndices = {}
    /\ editingId = NullId
    /\ isNewItem = FALSE
    /\ isUndoingRedoing = FALSE
    /\ isArchiveHidden = TRUE
    /\ clipboard = << >>
    /\ isArchiveActive = FALSE
    /\ isArchiveHeaderSelected = FALSE
    /\ threw = FALSE
    /\ lastOp = "init"
    /\ steps = 0
    /\ mark = MarkIdle

Init == WebviewStart /\ OuterIdle

-----------------------------------------------------------------------------
(* Messages from the host                                                  *)

\* case 'update'
Update(doc) ==
    /\ Ready
    /\ LET loaded == LoadDoc(doc, UsedIds)
       IN  /\ items' = loaded.items
           /\ archivedItems' = loaded.archivedItems
           /\ IF activeIndex >= Len(loaded.items)
              THEN SetSel(SelClear)
              ELSE UNCHANGED selVars
    /\ SetArchSel(SelClear)
    /\ isArchiveActive' = FALSE
    /\ isArchiveHeaderSelected' = FALSE
    /\ threw' = FALSE
    /\ UNCHANGED << histVars, editVars, flagVars, clipboard >>
    /\ Tick("update")

\* case 'clearArchiveConfirmed'
ClearArchiveConfirmed ==
    /\ Ready
    /\ editingId = NullId
    /\ archivedItems # << >>
    /\ saveState
    /\ archivedItems' = << >>
    /\ SetArchSel(SelClear)
    /\ threw' = FALSE
    /\ UNCHANGED << items, selVars, editVars, flagVars, clipboard,
                    isArchiveActive, isArchiveHeaderSelected >>
    /\ Tick("clearArchive")

-----------------------------------------------------------------------------
(* Mouse selection                                                         *)

\* itemDiv.onmousedown of an active item
ItemMouseDown(index, toggle, extend) ==
    /\ ~EditorOpen
    /\ Has(items, index)
    /\ SetArchSel(SelClear)
    /\ isArchiveActive' = FALSE
    /\ isArchiveHeaderSelected' = FALSE
    /\ IF extend
       THEN IF extendThrows(items, CurSel, index, FALSE)
            THEN /\ threw' = TRUE
                 /\ anchorIndex' = IF anchorIndex = -1
                                   THEN (IF selectedIndices # {} THEN Min(selectedIndices)
                                         ELSE index)
                                   ELSE anchorIndex
                 /\ UNCHANGED << selectedIndices, activeIndex >>
            ELSE /\ threw' = FALSE
                 /\ SetSel(handleExtendSelection(items, CurSel, index, FALSE))
       ELSE /\ threw' = FALSE
            /\ SetSel(IF toggle THEN handleToggleSelection(items, CurSel, index)
                      ELSE setSingle(index))
    /\ UNCHANGED << items, archivedItems, histVars, editVars, flagVars, clipboard >>

Click(index) == Ready /\ ItemMouseDown(index, FALSE, FALSE) /\ Tick("click")

ToggleClick(index) == Ready /\ ItemMouseDown(index, TRUE, FALSE) /\ Tick("toggleClick")

ShiftClick(index) == Ready /\ ItemMouseDown(index, FALSE, TRUE) /\ Tick("shiftClick")

\* the selection an archived item's onmousedown leaves
archiveMouseDown(asel, index, toggle, extend) ==
    IF extend
    THEN LET anchor == IF asel.anchorIndex = -1
                       THEN (IF asel.selectedIndices # {} THEN Min(asel.selectedIndices)
                             ELSE index)
                       ELSE asel.anchorIndex
             start == IF anchor < index THEN anchor ELSE index
             end == IF anchor < index THEN index ELSE anchor
         IN  Sel(asel.selectedIndices \cup (start .. end), index, anchor)
    ELSE IF toggle
    THEN IF index \in asel.selectedIndices
         THEN LET rest == asel.selectedIndices \ { index }
              IN  Sel(rest,
                      IF asel.activeIndex = index
                      THEN (IF rest # {} THEN Min(rest) ELSE -1)
                      ELSE asel.activeIndex,
                      asel.anchorIndex)
         ELSE Sel(asel.selectedIndices \cup { index }, index, index)
    ELSE Sel({ index }, index, index)

\* itemDiv.onmousedown of an archived item
ArchiveMouseDown(index, toggle, extend) ==
    /\ ~EditorOpen
    /\ ~isArchiveHidden
    /\ Has(archivedItems, index)
    /\ SetSel(SelClear)
    /\ isArchiveActive' = TRUE
    /\ isArchiveHeaderSelected' = FALSE
    /\ SetArchSel(archiveMouseDown(CurArchSel, index, toggle, extend))
    /\ threw' = FALSE
    /\ UNCHANGED << items, archivedItems, histVars, editVars, flagVars, clipboard >>

ArchiveClick(index) == Ready /\ ArchiveMouseDown(index, FALSE, FALSE) /\ Tick("archiveClick")

ArchiveToggleClick(index) == Ready /\ ArchiveMouseDown(index, TRUE, FALSE) /\ Tick("archiveToggleClick")

ArchiveShiftClick(index) == Ready /\ ArchiveMouseDown(index, FALSE, TRUE) /\ Tick("archiveShiftClick")

\* selectAll(): Cmd+A
selectAllSel(itemList, sel) ==
    LET tasks == { i \in Idx(itemList) : At(itemList, i).type # "heading" }
        searched == sel.activeIndex < 0 \/ At(itemList, sel.activeIndex).type = "heading"
        referenceIndex == IF searched THEN (IF tasks = {} THEN -1 ELSE Min(tasks))
                          ELSE sel.activeIndex
        above == { i \in 0 .. referenceIndex : At(itemList, i).type = "heading" }
        below == { i \in (referenceIndex + 1) .. (Len(itemList) - 1) :
                     At(itemList, i).type = "heading" }
        sectionStart == IF above = {} THEN 0 ELSE Max(above) + 1
        sectionEnd == IF below = {} THEN Len(itemList) - 1 ELSE Min(below) - 1
    IN  IF referenceIndex = -1 THEN sel
        ELSE Sel({ i \in sectionStart .. sectionEnd : At(itemList, i).type # "heading" },
                 referenceIndex, referenceIndex)

SelectAll ==
    /\ Ready
    /\ KeyboardOpen
    /\ IF activeIndex >= Len(items)
       THEN threw' = TRUE /\ UNCHANGED selVars
       ELSE threw' = FALSE /\ SetSel(selectAllSel(items, CurSel))
    /\ UNCHANGED << items, archivedItems, archSelVars, histVars, editVars, flagVars,
                    clipboard, isArchiveActive, isArchiveHeaderSelected >>
    /\ Tick("selectAll")

-----------------------------------------------------------------------------
(* Undo and redo                                                           *)

\* undo(): Cmd+Z
UndoBody ==
    /\ KeyboardOpen
    /\ threw' = FALSE
    /\ IF isUndoingRedoing \/ history = << >>
       THEN /\ lastOp' = "undoFalse"
            /\ UNCHANGED << items, archivedItems, histVars, selVars, archSelVars >>
       ELSE LET previousState == undoTarget(history)
            IN  /\ lastOp' = "undo"
                /\ future' = Append(future, Snapshot(items, archivedItems))
                /\ history' = SubSeq(history, 1, Len(history) - 1)
                /\ items' = previousState.items
                /\ archivedItems' = previousState.archivedItems
                /\ SetSel(validateSelection(previousState.items, CurSel))
                /\ SetArchSel(validateArchiveSelection(previousState.archivedItems, CurArchSel))
    /\ UNCHANGED << editVars, flagVars, clipboard, isArchiveActive, isArchiveHeaderSelected >>

\* redo(): Cmd+Shift+Z
RedoBody ==
    /\ KeyboardOpen
    /\ threw' = FALSE
    /\ IF isUndoingRedoing \/ future = << >>
       THEN /\ lastOp' = "redoFalse"
            /\ UNCHANGED << items, archivedItems, histVars, selVars, archSelVars >>
       ELSE LET nextState == future[Len(future)]
            IN  /\ lastOp' = "redo"
                /\ history' = redoPast(history, items, archivedItems)
                /\ future' = SubSeq(future, 1, Len(future) - 1)
                /\ items' = nextState.items
                /\ archivedItems' = nextState.archivedItems
                /\ SetSel(validateSelection(nextState.items, CurSel))
                /\ SetArchSel(validateArchiveSelection(nextState.archivedItems, CurArchSel))
    /\ UNCHANGED << editVars, flagVars, clipboard, isArchiveActive, isArchiveHeaderSelected >>

Undo == Ready /\ UndoBody /\ TickSteps /\ ObserveUndo

Redo == Ready /\ RedoBody /\ TickSteps /\ ObserveRedo

-----------------------------------------------------------------------------
(* Checkbox, Space, Tab                                                    *)

\* checkbox.onclick (RenderUtils.createCheckbox)
CheckboxClick(index) ==
    /\ Ready
    /\ ~EditorOpen
    /\ Has(items, index)
    /\ At(items, index).type = "todo"
    /\ items' = [items EXCEPT ![index + 1].isChecked = ~@]
    /\ threw' = FALSE
    /\ UNCHANGED << archivedItems, histVars, selVars, archSelVars, editVars, flagVars,
                    clipboard, isArchiveActive, isArchiveHeaderSelected >>
    /\ Tick("checkbox")

\* KeyboardHandler.handleSpace: the list after the toggle
toggledItems(itemList, selectedSet) ==
    LET todos == { i \in selectedSet : Has(itemList, i) /\ At(itemList, i).type = "todo" }
        hasUnchecked == \E i \in todos : ~At(itemList, i).isChecked
    IN  [k \in 1..Len(itemList) |->
            IF (k - 1) \in todos THEN [itemList[k] EXCEPT !.isChecked = hasUnchecked]
            ELSE itemList[k]]

\* KeyboardHandler.handleSpace
Space ==
    /\ Ready
    /\ KeyboardOpen
    /\ threw' = FALSE
    /\ IF isArchiveActive \/ selectedIndices = {}
       THEN UNCHANGED << items, histVars >>
       ELSE saveState /\ items' = toggledItems(items, selectedIndices)
    /\ UNCHANGED << archivedItems, selVars, archSelVars, editVars, flagVars, clipboard,
                    isArchiveActive, isArchiveHeaderSelected >>
    /\ Tick("space")

\* a variant of IndentManager.canChangeIndent without the restriction on
\* indenting
canChangeIndentAnywhere(itemList, index, delta, newIndent) ==
    /\ At(itemList, index).type # "heading"
    /\ ~(newIndent < INDENT_PARENT \/ newIndent > INDENT_MAX)

\* a variant of IndentManager.canChangeIndent that never dedents
canChangeIndentUpOnly(itemList, index, delta, newIndent) ==
    /\ At(itemList, index).type # "heading"
    /\ ~(newIndent < INDENT_PARENT \/ newIndent > INDENT_MAX)
    /\ delta > 0
    /\ index # 0
    /\ At(itemList, index - 1).type # "heading"

\* IndentManager.canChangeIndent
canChangeIndent(itemList, index, delta, newIndent) ==
    /\ At(itemList, index).type # "heading"
    /\ ~(newIndent < INDENT_PARENT \/ newIndent > INDENT_MAX)
    /\ delta > 0 => (index # 0 /\ At(itemList, index - 1).type # "heading")

\* IndentManager.changeIndent: the list after the indices in range were handled
changedIndent(itemList, selectedSet, delta) ==
    [k \in 1..Len(itemList) |->
        IF (k - 1) \in selectedSet
           /\ canChangeIndent(itemList, k - 1, delta, itemList[k].indent + delta)
        THEN [itemList[k] EXCEPT !.indent = @ + delta]
        ELSE itemList[k]]

\* IndentManager.changeIndent reads items[index].indent of every selected index
changeIndentThrows(itemList, selectedSet) == \E i \in selectedSet : ~Has(itemList, i)

\* KeyboardHandler.handleTab
Tab(isShift) ==
    /\ Ready
    /\ KeyboardOpen
    /\ IF isArchiveActive \/ selectedIndices = {}
       THEN threw' = FALSE /\ UNCHANGED << items, histVars >>
       ELSE /\ saveState
            /\ items' = changedIndent(items, selectedIndices, IF isShift THEN -1 ELSE 1)
            /\ threw' = changeIndentThrows(items, selectedIndices)
    /\ UNCHANGED << archivedItems, selVars, archSelVars, editVars, flagVars, clipboard,
                    isArchiveActive, isArchiveHeaderSelected >>
    /\ Tick(IF isShift THEN "shiftTab" ELSE "tab")

-----------------------------------------------------------------------------
(* DeleteManager                                                           *)

\* a variant of DeleteManager.adjustCursorAfterDeletion that only clamps
adjustCursorClampOnly(itemList, referenceIndex, deletedParent, deletedChild) ==
    IF referenceIndex < Len(itemList) - 1 THEN referenceIndex ELSE Len(itemList) - 1

\* DeleteManager.adjustCursorAfterDeletion
adjustCursorAfterDeletion(itemList, referenceIndex, deletedParent, deletedChild) ==
    LET n == Len(itemList)
        low == IF referenceIndex < n - 1 THEN referenceIndex ELSE n - 1
        adjustedIndex == IF low < 0 /\ n > 0 THEN 0 ELSE low
    IN  IF adjustedIndex < 0 \/ adjustedIndex >= n THEN adjustedIndex
        ELSE IF deletedParent /\ ~deletedChild /\ At(itemList, adjustedIndex).type = "heading"
             THEN (IF adjustedIndex > 0 THEN adjustedIndex - 1 ELSE adjustedIndex)
        ELSE IF deletedChild /\ ~deletedParent
                /\ (At(itemList, adjustedIndex).type = "heading"
                    \/ At(itemList, adjustedIndex).indent = INDENT_PARENT)
             THEN (IF adjustedIndex - 1 < 0 THEN 0 ELSE adjustedIndex - 1)
        ELSE adjustedIndex

\* DeleteManager.deleteSingle
deleteSingle(itemList, sel, index) ==
    IF index < 0 \/ index >= Len(itemList) THEN [items |-> itemList, sel |-> sel]
    ELSE LET isParent == At(itemList, index).indent = INDENT_PARENT
             rest == RemoveAt(itemList, index, 1)
             cursor == adjustCursorAfterDeletion(rest, index, isParent, ~isParent)
         IN  [items |-> rest, sel |-> selectItem(rest, cursor)]

\* a variant of DeleteManager.collectIndicesToDelete that leaves children out
collectSelectedOnly(itemList, indices) == { j \in indices : Has(itemList, j) }

\* DeleteManager.collectIndicesToDelete
collectIndicesToDelete(itemList, indices) ==
    UNION { IF At(itemList, i).indent = INDENT_PARENT /\ At(itemList, i).type # "heading"
            THEN i .. (ChildRunEnd(itemList, i + 1) - 1)
            ELSE { i } : i \in { j \in indices : Has(itemList, j) } }

\* DeleteManager.deleteMultiple for a selection within range
deleteMultiple(itemList, indices) ==
    LET indicesToDelete == collectIndicesToDelete(itemList, indices)
        rest == Without(itemList, indicesToDelete)
        deletedParent == \E i \in indicesToDelete : At(itemList, i).indent = INDENT_PARENT
        deletedChild == \E i \in indicesToDelete : At(itemList, i).indent # INDENT_PARENT
        cursor == adjustCursorAfterDeletion(rest, Min(indicesToDelete),
                                            deletedParent, deletedChild)
    IN  [items |-> rest, sel |-> selectItem(rest, cursor)]

\* ArchiveDeleteManager.collectIndicesToDelete
collectArchivedIndicesToDelete(arch, indices) ==
    UNION { IF At(arch, i).indent = INDENT_PARENT
            THEN i .. (Min({ j \in (i + 1) .. (Len(arch) - 1) :
                               At(arch, j).indent = INDENT_PARENT } \cup { Len(arch) }) - 1)
            ELSE { i } : i \in { j \in indices : Has(arch, j) } }

\* KeyboardHandler.handleDelete on the archive (ArchiveDeleteManager.deleteMultiple)
DeleteArchived ==
    /\ saveState
    /\ IF \E i \in archivedSelectedIndices : ~Has(archivedItems, i)
       THEN /\ threw' = TRUE
            /\ UNCHANGED << archivedItems, archSelVars, isArchiveActive,
                            isArchiveHeaderSelected >>
       ELSE LET gone == collectArchivedIndicesToDelete(archivedItems, archivedSelectedIndices)
                rest == Without(archivedItems, gone)
                newActiveIndex == IF Min(gone) < Len(rest) - 1 THEN Min(gone)
                                  ELSE Len(rest) - 1
            IN  /\ threw' = FALSE
                /\ archivedItems' = rest
                /\ IF rest # << >>
                   THEN /\ SetArchSel(Sel({ newActiveIndex }, newActiveIndex, newActiveIndex))
                        /\ UNCHANGED << isArchiveActive, isArchiveHeaderSelected >>
                   ELSE /\ SetArchSel(SelClear)
                        /\ isArchiveHeaderSelected' = TRUE
                        /\ isArchiveActive' = FALSE
    /\ UNCHANGED << items, selVars >>

\* KeyboardHandler.handleDelete on the active list (DeleteManager.deleteMultiple)
DeleteActive ==
    /\ saveState
    /\ IF \E i \in selectedIndices : ~Has(items, i)
       THEN threw' = TRUE /\ UNCHANGED << items, selVars >>
       ELSE LET r == deleteMultiple(items, selectedIndices)
            IN  threw' = FALSE /\ items' = r.items /\ SetSel(r.sel)
    /\ UNCHANGED << archivedItems, archSelVars, isArchiveActive, isArchiveHeaderSelected >>

\* KeyboardHandler.handleDelete
Delete ==
    /\ Ready
    /\ KeyboardOpen
    /\ IF isArchiveActive
       THEN IF archivedSelectedIndices # {} THEN DeleteArchived
            ELSE /\ threw' = FALSE
                 /\ UNCHANGED << items, archivedItems, histVars, selVars, archSelVars,
                                 isArchiveActive, isArchiveHeaderSelected >>
       ELSE IF selectedIndices # {} THEN DeleteActive
            ELSE /\ threw' = FALSE
                 /\ UNCHANGED << items, archivedItems, histVars, selVars, archSelVars,
                                 isArchiveActive, isArchiveHeaderSelected >>
    /\ UNCHANGED << editVars, flagVars, clipboard >>
    /\ Tick("delete")

-----------------------------------------------------------------------------
(* addItem                                                                 *)

\* addItem: the insert position when none is given
addInsertIndex(itemList, type, active) ==
    IF active < 0 THEN Len(itemList)
    ELSE IF type # "heading" THEN active + 1
    ELSE IF At(itemList, active).indent = 1
         THEN LET stops == { i \in 0 .. (active - 1) :
                               At(itemList, i).indent = 0 \/ At(itemList, i).type = "heading" }
              IN  IF stops = {} THEN 0 ELSE Max(stops)
    ELSE active

\* addItem: the indent of the new item
addIndent(itemList, type, active) ==
    IF type = "heading" THEN 0
    ELSE IF active >= 0 /\ Has(itemList, active)
         THEN IF At(itemList, active).indent = 0
              THEN (IF active + 1 < Len(itemList) /\ At(itemList, active + 1).indent = 1
                    THEN 1 ELSE 0)
              ELSE At(itemList, active).indent
    ELSE 0

\* addItem(type): the toolbar buttons; addItem('todo', activeIndex + 1): Enter
addItemBody(type) ==
    /\ saveState
    /\ IF type = "heading" /\ activeIndex >= Len(items)
       THEN threw' = TRUE /\ UNCHANGED << items, selVars, editVars >>
       ELSE LET insertIndex == addInsertIndex(items, type, activeIndex)
                archiveIndex == findArchiveIndex(items)
                newId == generateIds(UsedIdsAfterSave, 1)[1]
                newItem == [id |-> newId, type |-> type, title |-> "",
                            indent |-> addIndent(items, type, activeIndex),
                            isChecked |-> FALSE, note |-> ""]
                grown == InsertAt(items, insertIndex, << newItem >>)
            IN  /\ threw' = FALSE
                /\ IF type = "heading" /\ archiveIndex # -1 /\ insertIndex > archiveIndex
                   THEN UNCHANGED << items, selVars, editVars >>
                   ELSE /\ items' = grown
                        /\ SetSel(selectItem(grown, insertIndex))
                        /\ editingId' = newId
                        /\ isNewItem' = TRUE
    /\ UNCHANGED << archivedItems, archSelVars, flagVars, clipboard,
                    isArchiveActive, isArchiveHeaderSelected >>

\* btn-add-todo, btn-add-heading
AddItemButton(type) ==
    /\ Ready
    /\ ~EditorOpen
    /\ addItemBody(type)
    /\ Tick(IF type = "heading" THEN "addHeading" ELSE "addTodo")

\* startEditing(id, false)
startEditingBody(id) ==
    /\ editingId' = id
    /\ isNewItem' = FALSE
    /\ threw' = FALSE
    /\ UNCHANGED << items, archivedItems, histVars, selVars, archSelVars, flagVars,
                    clipboard, isArchiveActive, isArchiveHeaderSelected >>

\* KeyboardHandler.handleEnter with the new-item trigger
EnterKey ==
    /\ Ready
    /\ KeyboardOpen
    /\ IF isArchiveHeaderSelected
       THEN /\ isArchiveHidden' = ~isArchiveHidden
            /\ threw' = FALSE
            /\ UNCHANGED << items, archivedItems, histVars, selVars, archSelVars, editVars,
                            isUndoingRedoing, clipboard, isArchiveActive,
                            isArchiveHeaderSelected >>
       ELSE IF isArchiveActive
       THEN /\ threw' = FALSE
            /\ UNCHANGED << items, archivedItems, histVars, selVars, archSelVars, editVars,
                            flagVars, clipboard, isArchiveActive, isArchiveHeaderSelected >>
       ELSE addItemBody("todo")
    /\ Tick("enter")

\* KeyboardHandler.handleEnter with the edit trigger
ShiftEnterKey ==
    /\ Ready
    /\ KeyboardOpen
    /\ ~isArchiveHeaderSelected
    /\ ~isArchiveActive
    /\ activeIndex >= 0
    /\ IF Has(items, activeIndex)
       THEN startEditingBody(At(items, activeIndex).id)
       ELSE /\ threw' = TRUE
            /\ UNCHANGED << items, archivedItems, histVars, selVars, archSelVars, editVars,
                            flagVars, clipboard, isArchiveActive, isArchiveHeaderSelected >>
    /\ Tick("shiftEnter")

\* itemDiv.ondblclick
DblClick(index) ==
    /\ Ready
    /\ ~EditorOpen
    /\ Has(items, index)
    /\ startEditingBody(At(items, index).id)
    /\ Tick("dblclick")

-----------------------------------------------------------------------------
(* The title editor                                                        *)

\* EditingManager.saveEdit / cancelEdit after stopEditing found the item;
\* written is the title the input callback stored in the item before
stopEditingBody(save, itemIndex, written, newTitle) ==
    LET titled == [items EXCEPT ![itemIndex + 1].title = written]
        r == deleteSingle(titled, CurSel, itemIndex)
    IN  /\ editingId' = NullId
        /\ isNewItem' = FALSE
        /\ IF isNewItem /\ (~save \/ newTitle = "")
           THEN /\ items' = r.items
                /\ SetSel(r.sel)
                /\ history' = popLast(history)
                /\ UNCHANGED future
           ELSE IF ~save
           THEN /\ items' = titled
                /\ UNCHANGED << selVars, histVars >>
           ELSE IF newTitle = ""
           THEN /\ history' = savedHistory(history, titled, archivedItems)
                /\ future' = << >>
                /\ items' = r.items
                /\ SetSel(r.sel)
           ELSE /\ items' = [titled EXCEPT ![itemIndex + 1].title = newTitle]
                /\ IF written # newTitle /\ ~isNewItem
                   THEN /\ history' = savedHistory(history, titled, archivedItems)
                        /\ future' = << >>
                   ELSE UNCHANGED histVars
                /\ UNCHANGED selVars

EditFrame ==
    /\ threw' = FALSE
    /\ UNCHANGED << archivedItems, archSelVars, flagVars, clipboard,
                    isArchiveActive, isArchiveHeaderSelected >>

\* onEnter: item.title = inputEl.value; stopEditing(true)
EditEnter(typed) ==
    /\ Ready
    /\ EditorOpen
    /\ stopEditingBody(TRUE, IndexOfId(items, editingId), typed, Trim(typed))
    /\ EditFrame
    /\ Tick("editEnter")

\* onBlur: stopEditing(true)
EditBlur(typed) ==
    /\ Ready
    /\ editingId # NullId
    /\ LET itemIndex == IndexOfId(items, editingId)
       IN  IF itemIndex = -1
           THEN /\ editingId' = NullId
                /\ UNCHANGED << items, selVars, histVars, isNewItem >>
           ELSE stopEditingBody(TRUE, itemIndex, At(items, itemIndex).title, Trim(typed))
    /\ EditFrame
    /\ Tick("editBlur")

\* onEscape: stopEditing(false)
EditEscape ==
    /\ Ready
    /\ EditorOpen
    /\ LET itemIndex == IndexOfId(items, editingId)
       IN  stopEditingBody(FALSE, itemIndex, At(items, itemIndex).title, "")
    /\ EditFrame
    /\ Tick("editEscape")

\* onTab: item.title = inputEl.value, then the indent change
onTabBody(isShift, typed) ==
    /\ LET index == IndexOfId(items, editingId)
           item == At(items, index)
           newIndent == item.indent + (IF isShift THEN -1 ELSE 1)
           moved == /\ newIndent >= INDENT_PARENT
                    /\ newIndent <= INDENT_MAX
                    /\ isShift \/ (index > 0 /\ At(items, index - 1).type # "heading")
       IN  items' = [items EXCEPT ![index + 1] =
                        [item EXCEPT !.title = typed,
                                     !.indent = IF moved THEN newIndent ELSE @]]
    /\ UNCHANGED << selVars, histVars, editVars >>

\* onTab
EditTab(isShift, typed) ==
    /\ Ready
    /\ EditorOpen
    /\ onTabBody(isShift, typed)
    /\ EditFrame
    /\ Tick(IF isShift THEN "editShiftTab" ELSE "editTab")

-----------------------------------------------------------------------------
(* Blocks, clipboard, duplicate                                            *)

\* the items at the given indices, each with its children, concatenated
RECURSIVE blocksOf(_, _)
blocksOf(itemList, indices) ==
    IF indices = << >> THEN << >>
    ELSE getItemWithChildren(itemList, indices[1]) \o blocksOf(itemList, Tail(indices))

\* ItemUtils.adjustOrphanedIndent reads past the end of the target list
adjustOrphanedThrows(itemsToInsert, targetList, insertPosition) ==
    /\ itemsToInsert # << >>
    /\ itemsToInsert[1].indent = INDENT_CHILD
    /\ insertPosition # 0
    /\ insertPosition > Len(targetList)

\* a variant of ItemUtils.adjustOrphanedIndent that repairs nothing
keepOrphanedIndent(itemsToInsert, targetList, insertPosition) == itemsToInsert

\* ItemUtils.adjustOrphanedIndent
adjustOrphanedIndent(itemsToInsert, targetList, insertPosition) ==
    IF itemsToInsert = << >> THEN itemsToInsert
    ELSE IF itemsToInsert[1].indent # INDENT_CHILD THEN itemsToInsert
    ELSE IF insertPosition = 0 \/ ~hasParentAbove(targetList, insertPosition)
         THEN [itemsToInsert EXCEPT ![1].indent = INDENT_PARENT]
    ELSE itemsToInsert

\* duplicateItems(): Cmd+D
DuplicateBody ==
    /\ KeyboardOpen
    /\ lastOp' = "duplicate"
    /\ IF selectedIndices = {}
       THEN threw' = FALSE /\ UNCHANGED << items, histVars, selVars >>
       ELSE LET maxIndex == Max(selectedIndices)
                insertIndex == maxIndex + 1 + getChildCount(items, maxIndex)
                chosen == collectIndicesToProcess(items, selectedIndices, TRUE)
                copies == deepCopyNewIds(blocksOf(items, chosen), UsedIdsAfterSave)
                duplicatedItems == adjustOrphanedIndent(copies, items, insertIndex)
                grown == InsertAt(items, insertIndex, duplicatedItems)
            IN  /\ saveState
                /\ IF adjustOrphanedThrows(copies, items, insertIndex)
                   THEN threw' = TRUE /\ UNCHANGED << items, selVars >>
                   ELSE /\ threw' = FALSE
                        /\ items' = grown
                        /\ SetSel(selectItem(grown, insertIndex))
    /\ UNCHANGED << archivedItems, archSelVars, editVars, flagVars, clipboard,
                    isArchiveActive, isArchiveHeaderSelected >>

Duplicate == Ready /\ DuplicateBody /\ TickSteps /\ ObserveOp

\* copyItems(): Cmd+C
Copy ==
    /\ Ready
    /\ KeyboardOpen
    /\ selectedIndices # {}
    /\ clipboard' = blocksOf(items, collectIndicesToProcess(items, selectedIndices, TRUE))
    /\ threw' = FALSE
    /\ UNCHANGED << items, archivedItems, histVars, selVars, archSelVars, editVars,
                    flagVars, isArchiveActive, isArchiveHeaderSelected >>
    /\ Tick("copy")

\* cutItems(): Cmd+X
Cut ==
    /\ Ready
    /\ KeyboardOpen
    /\ selectedIndices # {}
    /\ clipboard' = blocksOf(items, collectIndicesToProcess(items, selectedIndices, TRUE))
    /\ DeleteActive
    /\ UNCHANGED << editVars, flagVars >>
    /\ Tick("cut")

\* a variant of the insert position of pasteItems that ignores the children
\* of the active item
pasteAfterActive(itemList, active) ==
    LET after == IF active < 0 THEN Len(itemList) ELSE active + 1
        archiveIndex == findArchiveIndex(itemList)
    IN  IF archiveIndex # -1 /\ after > archiveIndex THEN archiveIndex ELSE after

\* pasteItems: the insert position
pasteInsertIndex(itemList, active) ==
    LET after == IF active < 0 THEN Len(itemList)
                 ELSE IF At(itemList, active).indent = INDENT_PARENT
                      THEN active + 1 + getChildCount(itemList, active)
                 ELSE active + 1
        archiveIndex == findArchiveIndex(itemList)
    IN  IF archiveIndex # -1 /\ after > archiveIndex THEN archiveIndex ELSE after

\* pasteItems(): Cmd+V
Paste ==
    /\ Ready
    /\ KeyboardOpen
    /\ clipboard # << >>
    /\ saveState
    /\ IF activeIndex >= Len(items)
       THEN threw' = TRUE /\ UNCHANGED << items, selVars >>
       ELSE LET insertIndex == pasteInsertIndex(items, activeIndex)
                pastedItems == adjustOrphanedIndent(deepCopyNewIds(clipboard, UsedIdsAfterSave),
                                                    items, insertIndex)
                grown == InsertAt(items, insertIndex, pastedItems)
            IN  /\ threw' = FALSE
                /\ items' = grown
                /\ SetSel(selectItem(grown, insertIndex))
    /\ UNCHANGED << archivedItems, archSelVars, editVars, flagVars, clipboard,
                    isArchiveActive, isArchiveHeaderSelected >>
    /\ Tick("paste")

-----------------------------------------------------------------------------
(* Archive and restore                                                     *)

\* a variant of moveToArchive that leaves isChecked as it is
markCheckedSkipped(list) == list

\* moveToArchive: mi.isChecked = true for every moved item
markChecked(list) == [k \in 1..Len(list) |-> [list[k] EXCEPT !.isChecked = TRUE]]

\* a variant of moveToArchive that appends: archivedItems.push(...movedItems)
pushToArchive(arch, movedItems) == arch \o movedItems

\* moveToArchive: archivedItems.unshift(...movedItems)
unshiftToArchive(arch, movedItems) == movedItems \o arch

\* moveToArchive: the blocks of the items with the given ids, taken out one
\* after the other
RECURSIVE takeBlocks(_, _)
takeBlocks(itemList, ids) ==
    IF ids = << >> THEN [items |-> itemList, moved |-> << >>]
    ELSE LET index == IndexOfId(itemList, ids[1])
         IN  IF index = -1 THEN takeBlocks(itemList, Tail(ids))
             ELSE LET count == getItemWithChildrenCount(itemList, index)
                      rest == takeBlocks(RemoveAt(itemList, index, count), Tail(ids))
                  IN  [items |-> rest.items,
                       moved |-> getItemWithChildren(itemList, index) \o rest.moved]

\* moveToArchive(): Cmd+Shift+Right
MoveToArchive ==
    /\ Ready
    /\ KeyboardOpen
    /\ ~isArchiveActive
    /\ LET sel0 == IF selectedIndices = {} /\ activeIndex >= 0
                   THEN { activeIndex } ELSE selectedIndices
           chosen == collectIndicesToProcess(items, sel0, TRUE)
           ids == [k \in 1..Len(chosen) |-> At(items, chosen[Len(chosen) + 1 - k]).id]
           taken == takeBlocks(items, ids)
           minMovedIndex == Min(sel0)
           deletedParent == \E i \in sel0 : At(items, i).indent = INDENT_PARENT
           deletedChild == \E i \in sel0 : At(items, i).indent # INDENT_PARENT
           n == Len(taken.items)
           at == IF minMovedIndex >= n /\ n > 0 THEN n - 1
                 ELSE IF n > 0 THEN minMovedIndex ELSE -1
           cursor == adjustCursorAfterDeletion(taken.items, at, deletedParent, deletedChild)
       IN  IF sel0 = {}
           THEN threw' = FALSE /\ UNCHANGED << items, archivedItems, histVars, selVars >>
           ELSE /\ saveState
                /\ IF chosen = << >>
                   THEN /\ threw' = FALSE
                        /\ selectedIndices' = sel0
                        /\ UNCHANGED << items, archivedItems, activeIndex, anchorIndex >>
                   ELSE IF \E i \in sel0 : ~Has(items, i)
                   THEN /\ threw' = TRUE
                        /\ selectedIndices' = sel0
                        /\ UNCHANGED << items, archivedItems, activeIndex, anchorIndex >>
                   ELSE /\ threw' = FALSE
                        /\ items' = taken.items
                        /\ archivedItems' = unshiftToArchive(archivedItems,
                                                             markChecked(taken.moved))
                        /\ SetSel(Sel(IF cursor >= 0 THEN { cursor } ELSE {}, cursor, -1))
    /\ UNCHANGED << archSelVars, editVars, flagVars, clipboard,
                    isArchiveActive, isArchiveHeaderSelected >>
    /\ Tick("archive")

\* a variant of moveFromArchive that restores the selected item alone
familyOfItself(arch, index) == { index }

\* moveFromArchive: the archive indices restored for one selected index
familyOf(arch, index) ==
    LET parents == { j \in 0 .. (index - 1) : At(arch, j).indent = INDENT_PARENT }
        head == IF At(arch, index).indent = INDENT_PARENT THEN index
                ELSE IF parents = {} THEN -1 ELSE Max(parents)
        next == { j \in (head + 1) .. (Len(arch) - 1) : At(arch, j).indent = INDENT_PARENT }
    IN  IF head = -1 THEN { index }
        ELSE head .. ((IF next = {} THEN Len(arch) ELSE Min(next)) - 1)

\* a variant of moveFromArchive that leaves isChecked as it is
markUncheckedSkipped(list) == list

\* moveFromArchive: item.isChecked = false for every restored item
markUnchecked(list) == [k \in 1..Len(list) |-> [list[k] EXCEPT !.isChecked = FALSE]]

\* moveFromArchive(): Cmd+Shift+Left
MoveFromArchive ==
    /\ Ready
    /\ KeyboardOpen
    /\ IF archivedSelectedIndices = {}
       THEN /\ threw' = FALSE
            /\ UNCHANGED << items, archivedItems, histVars, selVars,
                            archivedSelectedIndices, isArchiveActive >>
       ELSE /\ saveState
            /\ IF \E i \in archivedSelectedIndices : ~Has(archivedItems, i)
               THEN /\ threw' = TRUE
                    /\ UNCHANGED << items, archivedItems, selVars,
                                    archivedSelectedIndices, isArchiveActive >>
               ELSE LET indicesToRestore ==
                            UNION { familyOf(archivedItems, i) : i \in archivedSelectedIndices }
                        movedItems == markUnchecked(
                            Without(archivedItems, Idx(archivedItems) \ indicesToRestore))
                        startIndex == Len(items)
                    IN  /\ threw' = FALSE
                        /\ items' = items \o movedItems
                        /\ archivedItems' = Without(archivedItems, indicesToRestore)
                        /\ archivedSelectedIndices' = {}
                        /\ isArchiveActive' = FALSE
                        /\ SetSel(Sel(startIndex .. (startIndex + Len(movedItems) - 1),
                                      startIndex, startIndex))
    /\ UNCHANGED << archivedActiveIndex, archivedAnchorIndex, editVars, flagVars,
                    clipboard, isArchiveHeaderSelected >>
    /\ Tick("restore")

\* archiveHeader.onmousedown
ArchiveHeaderClick ==
    /\ Ready
    /\ ~EditorOpen
    /\ archivedItems # << >>
    /\ isArchiveHidden' = ~isArchiveHidden
    /\ threw' = FALSE
    /\ UNCHANGED << items, archivedItems, histVars, selVars, archSelVars, editVars,
                    isUndoingRedoing, clipboard, isArchiveActive, isArchiveHeaderSelected >>
    /\ Tick("archiveHeader")

-----------------------------------------------------------------------------
(* Moving items                                                            *)

Outcome(itemList, sel, failed) == [items |-> itemList, sel |-> sel, threw |-> failed]

\* items.splice(from, count) then items.splice(to, 0, ...the removed items)
moveBlock(itemList, from, count, to) ==
    InsertAt(RemoveAt(itemList, from, count), to, Slice(itemList, from, from + count))

\* a variant of moveSingleUp in which a child swaps with whatever is above it
moveSingleUpAnyNeighbour(itemList, sel, originalIndex, count) ==
    IF originalIndex = 0 THEN Outcome(itemList, sel, FALSE)
    ELSE LET swapped == moveBlock(itemList, originalIndex, 1, originalIndex - 1)
         IN  Outcome(swapped, selectItem(swapped, originalIndex - 1), FALSE)

\* moveSingleUp
moveSingleUp(itemList, sel, originalIndex, count) ==
    LET item == At(itemList, originalIndex)
        targetIndex == originalIndex - 1
        candidates == { i \in 0 .. (originalIndex - 1) :
                          IF item.type = "heading" THEN At(itemList, i).type = "heading"
                          ELSE At(itemList, i).indent = INDENT_PARENT }
    IN  IF originalIndex = 0 THEN Outcome(itemList, sel, FALSE)
        ELSE IF item.indent = INDENT_CHILD
        THEN IF At(itemList, targetIndex).indent # INDENT_CHILD
             THEN Outcome(itemList, sel, FALSE)
             ELSE LET swapped == moveBlock(itemList, originalIndex, 1, targetIndex)
                  IN  Outcome(swapped, selectItem(swapped, targetIndex), FALSE)
        ELSE IF candidates = {} THEN Outcome(itemList, sel, FALSE)
        ELSE LET siblingIndex == Max(candidates)
                 swapped == moveBlock(itemList, originalIndex, count, siblingIndex)
             IN  Outcome(swapped, selectItem(swapped, siblingIndex), FALSE)

\* a variant of moveSingleDown in which the block steps over one item only,
\* whatever the size of the block below it
moveSingleDownOneStep(itemList, sel, originalIndex, count, archiveHidden) ==
    LET lowered == moveBlock(itemList, originalIndex, count, originalIndex + 1)
    IN  IF originalIndex + count >= Len(itemList) THEN Outcome(itemList, sel, FALSE)
        ELSE IF isArchiveHeading(itemList, originalIndex + count)
        THEN Outcome(itemList, sel, FALSE)
        ELSE Outcome(lowered, selectItem(lowered, originalIndex + 1), FALSE)

\* moveSingleDown; selectArchiveHeading, which it calls for a block that
\* lands under a hidden "Archive" heading, is not defined anywhere
moveSingleDown(itemList, sel, originalIndex, count, archiveHidden) ==
    LET item == At(itemList, originalIndex)
        nextIndex == originalIndex + count
        nextItem == At(itemList, nextIndex)
        nextBlockCount ==
            IF nextItem.type = "heading" /\ item.type = "heading"
            THEN SectionEnd(itemList, nextIndex + 1) - nextIndex
            ELSE IF nextItem.indent = INDENT_PARENT
            THEN ChildRunEnd(itemList, nextIndex + 1) - nextIndex
            ELSE 1
        newPosition == originalIndex + nextBlockCount
        swapped == moveBlock(itemList, originalIndex, count, newPosition)
        headingsAbove == { i \in 0 .. (newPosition - 1) : At(swapped, i).type = "heading" }
        inArchive == /\ headingsAbove # {}
                     /\ At(swapped, Max(headingsAbove)).title = "Archive"
                     /\ archiveHidden
    IN  IF nextIndex >= Len(itemList) THEN Outcome(itemList, sel, FALSE)
        ELSE IF isArchiveHeading(itemList, nextIndex) THEN Outcome(itemList, sel, FALSE)
        ELSE IF item.indent = INDENT_CHILD
        THEN IF nextItem.indent # INDENT_CHILD THEN Outcome(itemList, sel, FALSE)
             ELSE LET lowered == moveBlock(itemList, originalIndex, 1, originalIndex + 1)
                  IN  Outcome(lowered, selectItem(lowered, originalIndex + 1), FALSE)
        ELSE IF inArchive THEN Outcome(swapped, sel, TRUE)
        ELSE Outcome(swapped, selectItem(swapped, newPosition), FALSE)

\* moveSingleItem
moveSingleItem(itemList, sel, up, archiveHidden) ==
    IF ~Has(itemList, sel.activeIndex) THEN Outcome(itemList, sel, TRUE)
    ELSE LET count == getItemWithChildrenCount(itemList, sel.activeIndex)
         IN  IF up THEN moveSingleUp(itemList, sel, sel.activeIndex, count)
             ELSE moveSingleDown(itemList, sel, sel.activeIndex, count, archiveHidden)

\* MoveUtils.expandSelectionWithChildren
expandSelectionWithChildren(indices, itemList) ==
    indices \cup UNION {
        IF At(itemList, idx).indent = INDENT_PARENT /\ At(itemList, idx).type # "heading"
        THEN (idx + 1) .. (Min({ j \in (idx + 1) .. (Len(itemList) - 1) :
                                   At(itemList, j).indent # INDENT_CHILD }
                               \cup { Len(itemList) }) - 1)
        ELSE {} : idx \in indices }

\* MoveUtils.updateSelectionByIds
updateSelectionByIds(itemList, movingIds) ==
    { i \in Idx(itemList) : At(itemList, i).id \in movingIds }

\* MoveUtils.checkMovedIntoArchive
checkMovedIntoArchive(itemList, movingIds, archiveHidden) ==
    /\ archiveHidden
    /\ \E i \in Idx(itemList) :
         /\ At(itemList, i).id \in movingIds
         /\ ~isArchiveHeading(itemList, i)
         /\ \E j \in 0 .. (i - 1) : isArchiveHeading(itemList, j)

\* moveMultipleUp
moveMultipleUp(itemList, sel, start, count) ==
    LET targetIndex == start - 1
        stops == { i \in 0 .. targetIndex :
                     At(itemList, i).indent = INDENT_PARENT \/ At(itemList, i).type = "heading" }
        swapStart == IF At(itemList, start).indent = INDENT_PARENT
                        /\ At(itemList, targetIndex).indent = INDENT_CHILD /\ stops # {}
                     THEN Max(stops) ELSE targetIndex
        swapped == moveBlock(itemList, start, count, swapStart)
        movingIds == { At(itemList, i).id : i \in start .. (start + count - 1) }
    IN  IF start = 0 THEN Outcome(itemList, sel, FALSE)
        ELSE IF At(itemList, start).indent # INDENT_PARENT
                /\ At(itemList, targetIndex).indent # INDENT_CHILD
        THEN Outcome(itemList, sel, FALSE)
        ELSE Outcome(swapped,
                     Sel(updateSelectionByIds(swapped, movingIds),
                         sel.activeIndex - (start - swapStart), sel.anchorIndex),
                     FALSE)

\* moveMultipleDown
moveMultipleDown(itemList, sel, start, count, archiveHidden) ==
    LET next == start + count
        ends == { i \in (next + 1) .. (Len(itemList) - 1) :
                    At(itemList, i).indent = INDENT_PARENT \/ At(itemList, i).type = "heading" }
        swapCount == IF At(itemList, start).indent = INDENT_PARENT
                     THEN (IF ends = {} THEN Len(itemList) ELSE Min(ends)) - next
                     ELSE 1
        swapped == moveBlock(itemList, start, count, start + swapCount)
        movingIds == { At(itemList, i).id : i \in start .. (start + count - 1) }
    IN  IF next >= Len(itemList) THEN Outcome(itemList, sel, FALSE)
        ELSE IF \E i \in next .. (Len(itemList) - 1) : isArchiveHeading(itemList, i)
        THEN Outcome(itemList, sel, FALSE)
        ELSE IF At(itemList, start).indent # INDENT_PARENT
                /\ At(itemList, next).indent # INDENT_CHILD
        THEN Outcome(itemList, sel, FALSE)
        ELSE Outcome(swapped,
                     Sel(updateSelectionByIds(swapped, movingIds),
                         sel.activeIndex + swapCount, sel.anchorIndex),
                     checkMovedIntoArchive(swapped, movingIds, archiveHidden))

\* a variant of moveMultipleItems that moves a selection with gaps as well
moveMultipleItemsAnyShape(itemList, sel, up, archiveHidden) ==
    IF \E i \in sel.selectedIndices : ~Has(itemList, i) THEN Outcome(itemList, sel, TRUE)
    ELSE LET finalIndices == expandSelectionWithChildren(sel.selectedIndices, itemList)
             start == Min(finalIndices)
             count == Cardinality(finalIndices)
         IN  IF up THEN moveMultipleUp(itemList, sel, start, count)
             ELSE moveMultipleDown(itemList, sel, start, count, archiveHidden)

\* moveMultipleItems
moveMultipleItems(itemList, sel, up, archiveHidden) ==
    IF \E i \in sel.selectedIndices : ~Has(itemList, i) THEN Outcome(itemList, sel, TRUE)
    ELSE LET finalIndices == expandSelectionWithChildren(sel.selectedIndices, itemList)
             start == Min(finalIndices)
             count == Cardinality(finalIndices)
         IN  IF At(itemList, start).indent = INDENT_CHILD
                /\ \E idx \in finalIndices : At(itemList, idx).indent = INDENT_PARENT
             THEN Outcome(itemList, sel, FALSE)
             ELSE IF finalIndices # start .. Max(finalIndices)
             THEN Outcome(itemList, sel, FALSE)
             ELSE IF up THEN moveMultipleUp(itemList, sel, start, count)
             ELSE moveMultipleDown(itemList, sel, start, count, archiveHidden)

\* moveItem(direction): Cmd+Up, Cmd+Down
MoveItem(up) ==
    /\ Ready
    /\ KeyboardOpen
    /\ ~isArchiveActive
    /\ ~isArchiveHeaderSelected
    /\ IF activeIndex < 0 \/ isArchiveHeading(items, activeIndex)
       THEN threw' = FALSE /\ UNCHANGED << items, histVars, selVars >>
       ELSE LET r == IF Cardinality(selectedIndices) > 1
                     THEN moveMultipleItems(items, CurSel, up, isArchiveHidden)
                     ELSE moveSingleItem(items, CurSel, up, isArchiveHidden)
            IN  /\ saveState
                /\ items' = r.items
                /\ SetSel(r.sel)
                /\ threw' = r.threw
    /\ UNCHANGED << archivedItems, archSelVars, editVars, flagVars, clipboard,
                    isArchiveActive, isArchiveHeaderSelected >>
    /\ Tick(IF up THEN "moveUp" ELSE "moveDown")

\* a variant of the moved block that keeps the indent of a lone child
unpromotedBlock(itemList, index) == getItemWithChildren(itemList, index)

\* the moved block; a child that moves alone becomes a top-level item
promotedBlock(itemList, index) ==
    LET block == getItemWithChildren(itemList, index)
    IN  IF At(itemList, index).indent = INDENT_CHILD
        THEN [block EXCEPT ![1].indent = INDENT_PARENT]
        ELSE block

\* moveToNextHeading, the forEach over itemsToMove (ids bottom to top)
RECURSIVE moveEachToNextHeading(_, _)
moveEachToNextHeading(itemList, ids) ==
    IF ids = << >> THEN [items |-> itemList, anyMoved |-> FALSE]
    ELSE LET index == IndexOfId(itemList, Head(ids))
             count == getItemWithChildrenCount(itemList, index)
             headingsBelow == { i \in (index + count) .. (Len(itemList) - 1) :
                                  At(itemList, i).type = "heading" }
             nextHeadingIndex == Min(headingsBelow)
             insertIndex == nextHeadingIndex - count + 1
             moved == InsertAt(RemoveAt(itemList, index, count), insertIndex,
                               promotedBlock(itemList, index))
         IN  IF index = -1 \/ headingsBelow = {}
             THEN moveEachToNextHeading(itemList, Tail(ids))
             ELSE IF isArchiveHeading(itemList, nextHeadingIndex)
             THEN moveEachToNextHeading(itemList, Tail(ids))
             ELSE [moveEachToNextHeading(moved, Tail(ids)) EXCEPT !.anyMoved = TRUE]

\* moveToPrevHeading, the forEach over itemsToMove (ids bottom to top)
RECURSIVE moveEachToPrevHeading(_, _)
moveEachToPrevHeading(itemList, ids) ==
    IF ids = << >> THEN [items |-> itemList, anyMoved |-> FALSE]
    ELSE LET index == IndexOfId(itemList, Head(ids))
             count == getItemWithChildrenCount(itemList, index)
             headingsAbove == { i \in 0 .. (index - 1) : At(itemList, i).type = "heading" }
             nearest == Max(headingsAbove)
             insertIndex == IF headingsAbove = {} THEN 0
                            ELSE IF Cardinality(headingsAbove) = 1 THEN nearest + 1
                            ELSE Max(headingsAbove \ { nearest }) + 1
             moved == InsertAt(RemoveAt(itemList, index, count), insertIndex,
                               promotedBlock(itemList, index))
         IN  IF index = -1 \/ insertIndex = index
             THEN moveEachToPrevHeading(itemList, Tail(ids))
             ELSE [moveEachToPrevHeading(moved, Tail(ids)) EXCEPT !.anyMoved = TRUE]

\* the part moveToNextHeading and moveToPrevHeading share; toNext also ends
\* in the undefined selectArchiveHeading when a selected item lies under a
\* hidden "Archive" heading
moveToHeadingBody(toNext) ==
    LET sel0 == IF selectedIndices = {} /\ activeIndex >= 0
                THEN { activeIndex } ELSE selectedIndices
        captured == captureState(items, Sel(sel0, activeIndex, anchorIndex))
        ids == Reverse([k \in 1..Len(collectItemsToProcess(items, sel0, TRUE)) |->
                           collectItemsToProcess(items, sel0, TRUE)[k].id])
        r == IF toNext THEN moveEachToNextHeading(items, ids)
             ELSE moveEachToPrevHeading(items, ids)
    IN  IF sel0 = {}
        THEN threw' = FALSE /\ UNCHANGED << items, histVars, selVars >>
        ELSE /\ saveState
             /\ items' = r.items
             /\ IF r.anyMoved
                THEN /\ SetSel(restoreState(r.items, Sel(sel0, activeIndex, anchorIndex),
                                            captured))
                     /\ threw' = (toNext /\ checkMovedIntoArchive(r.items, captured.selectedIds,
                                                                  isArchiveHidden))
                ELSE /\ selectedIndices' = sel0
                     /\ UNCHANGED << activeIndex, anchorIndex >>
                     /\ threw' = FALSE

\* Cmd+Right
MoveToNextHeading ==
    /\ Ready
    /\ KeyboardOpen
    /\ ~isArchiveActive
    /\ moveToHeadingBody(TRUE)
    /\ UNCHANGED << archivedItems, archSelVars, editVars, flagVars, clipboard,
                    isArchiveActive, isArchiveHeaderSelected >>
    /\ Tick("moveNext")

\* Cmd+Left
MoveToPrevHeading ==
    /\ Ready
    /\ KeyboardOpen
    /\ ~isArchiveActive
    /\ moveToHeadingBody(FALSE)
    /\ UNCHANGED << archivedItems, archSelVars, editVars, flagVars, clipboard,
                    isArchiveActive, isArchiveHeaderSelected >>
    /\ Tick("movePrev")

-----------------------------------------------------------------------------
(* The webview session                                                     *)

Next ==
    \/ \E doc \in Docs : Update(doc)
    \/ ClearArchiveConfirmed
    \/ \E i \in Idx(items) : Click(i)
    \/ \E i \in Idx(items) : ToggleClick(i)
    \/ \E i \in Idx(items) : ShiftClick(i)
    \/ \E i \in Idx(archivedItems) : ArchiveClick(i)
    \/ \E i \in Idx(archivedItems) : ArchiveToggleClick(i)
    \/ \E i \in Idx(archivedItems) : ArchiveShiftClick(i)
    \/ ArchiveHeaderClick
    \/ SelectAll
    \/ Undo
    \/ Redo
    \/ \E i \in Idx(items) : CheckboxClick(i)
    \/ Space
    \/ \E isShift \in BOOLEAN : Tab(isShift)
    \/ Delete
    \/ \E type \in { "todo", "heading" } : AddItemButton(type)
    \/ EnterKey
    \/ ShiftEnterKey
    \/ \E i \in Idx(items) : DblClick(i)
    \/ \E typed \in TypedTitles : EditEnter(typed)
    \/ \E typed \in TypedTitles : EditBlur(typed)
    \/ EditEscape
    \/ \E isShift \in BOOLEAN, typed \in TypedTitles : EditTab(isShift, typed)
    \/ Duplicate
    \/ Copy
    \/ Cut
    \/ Paste
    \/ MoveToArchive
    \/ MoveFromArchive
    \/ \E up \in BOOLEAN : MoveItem(up)
    \/ MoveToNextHeading
    \/ MoveToPrevHeading

Spec == Init /\ [][Next]_vars

-----------------------------------------------------------------------------
(* A long session on the history stacks: the document DocC is loaded, its  *)
(* item is clicked, and the user duplicates the last item, undoes, redoes  *)
(* and clicks the last item again.                                         *)

InitHistory ==
    /\ items = LoadDoc(DocC, { NullId }).items
    /\ archivedItems = LoadDoc(DocC, { NullId }).archivedItems
    /\ archivedSelectedIndices = {}
    /\ archivedActiveIndex = -1
    /\ archivedAnchorIndex = -1
    /\ history = << >>
    /\ future = << >>
    /\ activeIndex = 0
    /\ anchorIndex = 0
    /\ selectedIndices = { 0 }
    /\ editingId = NullId
    /\ isNewItem = FALSE
    /\ isUndoingRedoing = FALSE
    /\ isArchiveHidden = TRUE
    /\ clipboard = << >>
    /\ isArchiveActive = FALSE
    /\ isArchiveHeaderSelected = FALSE
    /\ threw = FALSE
    /\ lastOp = "click"
    /\ steps = 2
    /\ mark = MarkIdle
    /\ OuterIdle

HistClickLast ==
    /\ items # << >>
    /\ ItemMouseDown(Len(items) - 1, FALSE, FALSE)
    /\ lastOp' = "click"
    /\ UNCHANGED << steps, mark, outerVars >>

HistDuplicate ==
    /\ Len(items) < MaxGrow
    /\ selectedIndices = { Len(items) - 1 }
    /\ DuplicateBody
    /\ UNCHANGED << steps, mark, outerVars >>

HistUndo == UndoBody /\ UNCHANGED << steps, mark, outerVars >>

HistRedo == RedoBody /\ UNCHANGED << steps, mark, outerVars >>

NextHistory ==
    \/ HistClickLast
    \/ HistDuplicate
    \/ HistUndo
    \/ HistRedo

SpecHistory == InitHistory /\ [][NextHistory]_vars

-----------------------------------------------------------------------------
(* The two conversions of parser.ts on their own: a text or a pair of      *)
(* lists is given, and parseMarkdown and stringifyItems are applied to it  *)
(* in turn.  conv.origin keeps what was given, conv.round counts the       *)
(* conversions.                                                            *)

MaxUnits == 2
MaxArchiveUnits == 2
MaxListLen == 2

SeqsUpTo(S, n) == UNION { [1..k -> S] : k \in 0..n }

\* the lines of the format
HeadingLines == { TextLine(<< >>, "## ", title) : title \in { "", "t", " t" } }

TodoLines ==
    { TextLine(Tabs(indent), head, "t") : indent \in 0..1, head \in { "- [ ] ", "- [x] " } }

NoteBlocks ==
    { << TextLine(Spaces(4), FencePlane, "") >> \o body \o << TextLine(Spaces(4), Fence, "") >> :
        body \in { << >>, << TextLine(Spaces(4), "", "t") >> } }

ArchiveLine == TextLine(<< >>, "## ", "Archive")

\* a text of heading lines, todo lines and note blocks, then possibly the
\* Archive heading with todo lines and note blocks; every line ends with a
\* newline
FormatTexts ==
    LET units == { << l >> : l \in HeadingLines \cup TodoLines } \cup NoteBlocks
        archived == { << l >> : l \in TodoLines } \cup NoteBlocks
        sections == { << >> } \cup { << ArchiveLine >> \o Flatten(us) :
                                       us \in SeqsUpTo(archived, MaxArchiveUnits) }
    IN  { Flatten(us) \o section \o << EmptyLine >> :
            us \in SeqsUpTo(units, MaxUnits), section \in sections }

\* notes as the inspector stores them: none, one line, and one whose first
\* line is a fence
Notes ==
    { << EmptyLine >>,
      << TextLine(<< >>, "", "t") >>,
      << TextLine(<< >>, Fence, ""), TextLine(<< >>, "- [ ] ", "t") >> }

ActiveItems ==
    { [ParsedHeading(title) EXCEPT !.note = note] : title \in { "t", " t", "" }, note \in Notes }
    \cup { [ParsedTodo(indent, "t", isChecked) EXCEPT !.note = note] :
             indent \in 0..1, isChecked \in BOOLEAN, note \in Notes }

ArchivedTodos ==
    { [ParsedTodo(indent, "t", TRUE) EXCEPT !.note = note] : indent \in 0..1, note \in Notes }

FormatLists ==
    { [items |-> its, archivedItems |-> arch] :
        its \in SeqsUpTo(ActiveItems, MaxListLen), arch \in SeqsUpTo(ArchivedTodos, MaxListLen) }

InitParser ==
    /\ WebviewStart
    /\ \/ \E text \in FormatTexts :
             conv = [phase |-> "text", text |-> text, origin |-> text, round |-> 0]
       \/ \E lists \in FormatLists :
             conv = [phase |-> "lists", lists |-> lists, origin |-> lists, round |-> 0]
    /\ provider = ProviderIdle
    /\ disk = DiskIdle
    /\ probe = ProbeIdle

\* parseMarkdown(content)
ParseMarkdown ==
    /\ conv.phase = "text"
    /\ conv.round < 2
    /\ conv' = [phase |-> "lists", lists |-> parseContent(conv.text),
                origin |-> conv.origin, round |-> conv.round + 1]
    /\ UNCHANGED << webviewVars, provider, disk, probe >>

\* stringifyItems(items, archivedItems)
StringifyItems ==
    /\ conv.phase = "lists"
    /\ conv.round < 2
    /\ conv' = [phase |-> "text",
                text |-> stringifyItems(conv.lists.items, conv.lists.archivedItems),
                origin |-> conv.origin, round |-> conv.round + 1]
    /\ UNCHANGED << webviewVars, provider, disk, probe >>

NextParser == ParseMarkdown \/ StringifyItems

SpecParser == InitParser /\ [][NextParser]_vars

-----------------------------------------------------------------------------
(* The host (SidebarProvider.ts, extension.ts).  The provider keeps the    *)
(* lists it last received or loaded.  updateItems arms the 1000 ms timer   *)
(* that saves them; an event of the file watcher and the syncFile command  *)
(* arm the 100 ms timer that reloads the file; every save arms a 500 ms    *)
(* timer that clears _ignoreNextChange.  An armed timer is a flag or a     *)
(* count, and fires at some later moment; each callback runs to its end,   *)
(* and reads and writes of the file succeed.  probe keeps what the webview *)
(* sent last, what the provider wrote last, what another writer put in the *)
(* file while the watcher was active, and what the provider read last.     *)

MaxUpdates == 2
MaxForeignWrites == 2

\* the lists the webview sends with updateItems
HostLists ==
    { [items |-> << ParsedTodo(0, "t", FALSE) >>, archivedItems |-> << >>],
      [items |-> << ParsedHeading("t"), ParsedTodo(0, "t", FALSE) >>,
       archivedItems |-> << ParsedTodo(0, "t", TRUE) >>] }

\* the texts another writer puts in the task file
ForeignTexts ==
    { << TextLine(<< >>, "- [x] ", "t"), EmptyLine >>,
      << TextLine(<< >>, "## ", "t"), TextLine(<< >>, "- [ ] ", "t"),
         TextLine(Tabs(1), "- [ ] ", "t"), EmptyLine >> }

\* the provider after its constructor, an empty task file, the watcher
\* started or not by activate
InitHost ==
    /\ WebviewStart
    /\ conv = ConvIdle
    /\ provider = [items |-> << >>, archivedItems |-> << >>, posted |-> << >>,
                   debounceTimer |-> FALSE, refreshDebounceTimer |-> FALSE,
                   ignoreNextChange |-> FALSE, fallbackTimers |-> 0]
    /\ \E watching \in BOOLEAN :
          disk = [file |-> << EmptyLine >>, watching |-> watching, events |-> 0]
    /\ probe = [sent |-> << >>, saved |-> << >>, foreign |-> << >>, reloaded |-> << >>,
                updates |-> 0, foreignWrites |-> 0]

\* _loadFromFile: the file is read and parsed, the lists replace the
\* provider's and are posted to the webview with 'update'
loadFromFile(p) ==
    LET parsed == parseContent(disk.file)
    IN  [p EXCEPT !.items = parsed.items, !.archivedItems = parsed.archivedItems,
                  !.posted = << parsed >>]

\* onDidReceiveMessage, 'ready' and 'requestSync'
WebviewReady ==
    /\ provider' = loadFromFile(provider)
    /\ probe' = [probe EXCEPT !.reloaded = << disk.file >>]
    /\ UNCHANGED << webviewVars, conv, disk >>

\* onDidReceiveMessage, 'updateItems', and _triggerSave
UpdateItems(lists) ==
    /\ probe.updates < MaxUpdates
    /\ provider' = [provider EXCEPT !.items = lists.items,
                                    !.archivedItems = lists.archivedItems,
                                    !.debounceTimer = TRUE]
    /\ probe' = [probe EXCEPT !.sent = << lists >>, !.saved = << >>, !.updates = @ + 1]
    /\ UNCHANGED << webviewVars, conv, disk >>

\* the 1000 ms timer of _triggerSave fires: _saveToFile
SaveTimerFires ==
    /\ provider.debounceTimer
    /\ LET content == stringifyItems(provider.items, provider.archivedItems)
       IN  /\ provider' = [provider EXCEPT !.debounceTimer = FALSE,
                                           !.ignoreNextChange = TRUE,
                                           !.fallbackTimers = @ + 1]
           /\ disk' = [disk EXCEPT !.file = content,
                                   !.events = IF disk.watching THEN @ + 1 ELSE @]
           /\ probe' = [probe EXCEPT !.saved = << content >>, !.foreign = << >>]
    /\ UNCHANGED << webviewVars, conv >>

\* another writer replaces the task file
ForeignWrite(text) ==
    /\ probe.foreignWrites < MaxForeignWrites
    /\ disk' = [disk EXCEPT !.file = text,
                            !.events = IF disk.watching THEN @ + 1 ELSE @]
    /\ probe' = [probe EXCEPT !.foreign = IF disk.watching THEN << text >> ELSE << >>,
                              !.reloaded = << >>,
                              !.foreignWrites = @ + 1]
    /\ UNCHANGED << webviewVars, conv, provider >>

\* watcher.onDidChange for the task file: refresh() arms the 100 ms timer
\* again
WatcherEvent ==
    /\ disk.watching
    /\ disk.events > 0
    /\ disk' = [disk EXCEPT !.events = @ - 1]
    /\ provider' = [provider EXCEPT !.refreshDebounceTimer = TRUE]
    /\ UNCHANGED << webviewVars, conv, probe >>

\* the command archyTask.syncFile: refresh()
SyncFileCommand ==
    /\ provider' = [provider EXCEPT !.refreshDebounceTimer = TRUE]
    /\ UNCHANGED << webviewVars, conv, disk, probe >>

\* the 100 ms timer of refresh fires
RefreshTimerFires ==
    /\ provider.refreshDebounceTimer
    /\ IF provider.ignoreNextChange
       THEN /\ provider' = [provider EXCEPT !.refreshDebounceTimer = FALSE,
                                            !.ignoreNextChange = FALSE]
            /\ UNCHANGED probe
       ELSE /\ provider' = loadFromFile([provider EXCEPT !.refreshDebounceTimer = FALSE])
            /\ probe' = [probe EXCEPT !.reloaded = << disk.file >>]
    /\ UNCHANGED << webviewVars, conv, disk >>

\* a 500 ms timer of _saveToFile fires
FallbackTimerFires ==
    /\ provider.fallbackTimers > 0
    /\ provider' = [provider EXCEPT !.fallbackTimers = @ - 1, !.ignoreNextChange = FALSE]
    /\ UNCHANGED << webviewVars, conv, disk, probe >>

\* onDidChangeVisibleTextEditors: startWatcher when the task file is opened
\* in an editor, stopWatcher when its last editor is closed
EditorsChanged ==
    /\ disk' = [disk EXCEPT !.watching = ~@, !.events = 0]
    /\ probe' = [probe EXCEPT !.foreign = IF disk.watching THEN << >> ELSE @]
    /\ UNCHANGED << webviewVars, conv, provider >>

NextHost ==
    \/ WebviewReady
    \/ \E lists \in HostLists : UpdateItems(lists)
    \/ SaveTimerFires
    \/ \E text \in ForeignTexts : ForeignWrite(text)
    \/ WatcherEvent
    \/ SyncFileCommand
    \/ RefreshTimerFires
    \/ FallbackTimerFires
    \/ EditorsChanged

\* an armed timer fires and a watcher event is delivered
SpecHost ==
    /\ InitHost
    /\ [][NextHost]_vars
    /\ WF_vars(SaveTimerFires)
    /\ WF_vars(RefreshTimerFires)
    /\ WF_vars(FallbackTimerFires)
    /\ WF_vars(WatcherEvent)

-----------------------------------------------------------------------------
(* A session of edits that are cancelled: the document DocB is loaded, its *)
(* first item is clicked, and the user opens the editor of an item with a  *)
(* double click, types, presses Tab or Shift+Tab in it and leaves it with  *)
(* Escape.                                                                 *)

InitCancel ==
    /\ items = LoadDoc(DocB, { NullId }).items
    /\ archivedItems = LoadDoc(DocB, { NullId }).archivedItems
    /\ archivedSelectedIndices = {}
    /\ archivedActiveIndex = -1
    /\ archivedAnchorIndex = -1
    /\ history = << >>
    /\ future = << >>
    /\ activeIndex = 0
    /\ anchorIndex = 0
    /\ selectedIndices = { 0 }
    /\ editingId = NullId
    /\ isNewItem = FALSE
    /\ isUndoingRedoing = FALSE
    /\ isArchiveHidden = TRUE
    /\ clipboard = << >>
    /\ isArchiveActive = FALSE
    /\ isArchiveHeaderSelected = FALSE
    /\ threw = FALSE
    /\ lastOp = "click"
    /\ steps = 2
    /\ mark = MarkIdle
    /\ OuterIdle

CancelBegin(index) ==
    /\ ~EditorOpen
    /\ Has(items, index)
    /\ startEditingBody(At(items, index).id)
    /\ lastOp' = "dblclick"
    /\ mark' = [MarkIdle EXCEPT !.phase = "editing",
                                !.pre = << items, archivedItems, history, future >>]
    /\ UNCHANGED << steps, outerVars >>

CancelTab(isShift, typed) ==
    /\ EditorOpen
    /\ onTabBody(isShift, typed)
    /\ EditFrame
    /\ lastOp' = (IF isShift THEN "editShiftTab" ELSE "editTab")
    /\ UNCHANGED << steps, mark, outerVars >>

CancelEscape ==
    /\ EditorOpen
    /\ LET itemIndex == IndexOfId(items, editingId)
       IN  stopEditingBody(FALSE, itemIndex, At(items, itemIndex).title, "")
    /\ EditFrame
    /\ lastOp' = "editEscape"
    /\ mark' = MarkIdle
    /\ UNCHANGED << steps, outerVars >>

NextCancel ==
    \/ \E index \in 0..3 : CancelBegin(index)
    \/ \E isShift \in BOOLEAN, typed \in TypedTitles : CancelTab(isShift, typed)
    \/ CancelEscape

SpecCancel == InitCancel /\ [][NextCancel]_vars

-----------------------------------------------------------------------------
(* A long session of new items that are abandoned: the document DocC is    *)
(* loaded, its item is clicked, and the user duplicates the last item,     *)
(* clicks the last item, adds an item with a toolbar button and leaves its *)
(* editor with Escape or with Enter on an empty title.                     *)

AbandonAdd(type) ==
    /\ ~EditorOpen
    /\ Len(items) <= MaxGrow
    /\ addItemBody(type)
    /\ lastOp' = (IF type = "heading" THEN "addHeading" ELSE "addTodo")
    /\ mark' = [MarkIdle EXCEPT !.phase = "added",
                                !.pre = << items, archivedItems, history, future >>]
    /\ UNCHANGED << steps, outerVars >>

AbandonEscape ==
    /\ EditorOpen
    /\ isNewItem
    /\ LET itemIndex == IndexOfId(items, editingId)
       IN  stopEditingBody(FALSE, itemIndex, At(items, itemIndex).title, "")
    /\ EditFrame
    /\ lastOp' = "editEscape"
    /\ mark' = MarkIdle
    /\ UNCHANGED << steps, outerVars >>

AbandonEmptyEnter ==
    /\ EditorOpen
    /\ isNewItem
    /\ stopEditingBody(TRUE, IndexOfId(items, editingId), "", Trim(""))
    /\ EditFrame
    /\ lastOp' = "editEnter"
    /\ mark' = MarkIdle
    /\ UNCHANGED << steps, outerVars >>

NextAbandon ==
    \/ HistClickLast
    \/ HistDuplicate
    \/ \E type \in { "todo", "heading" } : AbandonAdd(type)
    \/ AbandonEscape
    \/ AbandonEmptyEnter

SpecAbandon == InitHistory /\ [][NextAbandon]_vars

-----------------------------------------------------------------------------
(* A session that continues after the document DocB was loaded and its     *)
(* first item clicked, with MaxLoadedSteps handlers left to take.          *)

InitLoaded ==
    /\ items = LoadDoc(DocB, { NullId }).items
    /\ archivedItems = LoadDoc(DocB, { NullId }).archivedItems
    /\ archivedSelectedIndices = {}
    /\ archivedActiveIndex = -1
    /\ archivedAnchorIndex = -1
    /\ history = << >>
    /\ future = << >>
    /\ activeIndex = 0
    /\ anchorIndex = 0
    /\ selectedIndices = { 0 }
    /\ editingId = NullId
    /\ isNewItem = FALSE
    /\ isUndoingRedoing = FALSE
    /\ isArchiveHidden = TRUE
    /\ clipboard = << >>
    /\ isArchiveActive = FALSE
    /\ isArchiveHeaderSelected = FALSE
    /\ threw = FALSE
    /\ lastOp = "click"
    /\ steps = MaxSteps - MaxLoadedSteps
    /\ mark = MarkIdle
    /\ OuterIdle

SpecLoaded == InitLoaded /\ [][Next]_vars

-----------------------------------------------------------------------------
(* Properties                                                              *)

\* an indent-1 todo that is first in the list or directly follows a heading
OrphanAt(itemList, i) ==
    /\ At(itemList, i).type = "todo"
    /\ At(itemList, i).indent = 1
    /\ (i = 0 \/ At(itemList, i - 1).type = "heading")

\* C1: in every reachable state of a session that starts from well-formed
\* documents, no indent-1 todo is the first item of the active list and none
\* directly follows a heading.
C1_NoOrphanedChild == \A i \in Idx(items) : ~OrphanAt(items, i)

\* the identifiers of the items placed after the "Archive" heading
AfterArchive(itemList) ==
    IF findArchiveIndex(itemList) = -1 THEN {}
    ELSE { At(itemList, i).id : i \in (findArchiveIndex(itemList) + 1) .. (Len(itemList) - 1) }

StructuralOps ==
    { "addTodo", "addHeading", "enter", "paste", "duplicate", "restore",
      "moveUp", "moveDown", "moveNext", "movePrev" }

\* C2: while the active list holds a heading titled "Archive", no structural
\* operation (add item, paste, duplicate, move up or down, move to the next
\* or previous heading, restore) puts an item after it that was not after it
\* before.
C2_NothingPlacedAfterArchive ==
    [][(findArchiveIndex(items) # -1 /\ lastOp' \in StructuralOps)
        => AfterArchive(items') \subseteq AfterArchive(items)]_vars

\* C3: after a run of N <= 50 operations that each took one snapshot before
\* changing the lists, and then k <= N undo calls with no other change in
\* between, (items, archivedItems) have the value they had before the k-th
\* last operation of the run; with k = N this is the value before the first
\* operation.
C3_UndoRestoresRunStart ==
    (mark.phase = "undos" /\ mark.early)
        => Snapshot(items, archivedItems) = mark.trail[Len(mark.trail) - mark.undone + 1]

C3_RunFullyUndone ==
    /\ mark.phase = "undos"
    /\ mark.early
    /\ Len(mark.trail) >= 2
    /\ mark.undone = Len(mark.trail)
    /\ mark.trail[1] # mark.trail[2]
    /\ Snapshot(items, archivedItems) = mark.trail[1]

\* The same law for every handler that pushes one snapshot, whenever it takes
\* it; the title commit with Enter, which writes the typed title into the item
\* before HistoryManager.save runs, does not satisfy it.
UndoRestoresAfterLateSave ==
    mark.phase = "undos"
        => Snapshot(items, archivedItems) = mark.trail[Len(mark.trail) - mark.undone + 1]

\* C4: the past stack never holds more than MAX_HISTORY_SIZE snapshots, a
\* redo included, and a save onto a full stack drops the oldest snapshot and
\* keeps the others in order below the new one.
C4_HistoryBounded ==
    [](Len(history) <= MAX_HISTORY_SIZE)
    /\ [][(lastOp' = "duplicate" /\ Len(history) = MAX_HISTORY_SIZE /\ history' # history)
            => history' = Append(Tail(history), Snapshot(items, archivedItems))]_vars

C4_RedoAtFullStack ==
    /\ lastOp = "redo"
    /\ Len(history) = MAX_HISTORY_SIZE
    /\ Len(items) > MAX_HISTORY_SIZE + 1

\* C5: a handler other than undo and redo (and the reload) that changes
\* items or archivedItems leaves the redo stack empty.
C5_ChangeClearsFuture ==
    [][(/\ lastOp' \notin { "undo", "redo", "undoFalse", "redoFalse", "update" }
        /\ << items', archivedItems' >> # << items, archivedItems >>)
        => future' = << >>]_vars

\* C6: with a non-empty past an undo is performed, and a redo right after it
\* is performed too and leaves items, archivedItems, past and future as they
\* were before the undo; an undo with an empty past and a redo with an empty
\* future return false and change neither the lists, the stacks nor the
\* selections.
C6_UndoRedoRoundTrip ==
    [][/\ (lastOp' \in { "undo", "undoFalse" })
            => ((lastOp' = "undoFalse") <=> (history = << >>))
       /\ (lastOp' \in { "redo", "redoFalse" })
            => ((lastOp' = "redoFalse") <=> (future = << >>))
       /\ (lastOp = "undo" /\ lastOp' \in { "redo", "redoFalse" })
            => /\ lastOp' = "redo"
               /\ << items', archivedItems', history', future' >> = mark.pre
       /\ (lastOp' \in { "undoFalse", "redoFalse" })
            => UNCHANGED << items, archivedItems, history, future, selVars, archSelVars >>]_vars

C6_RedoAfterUndo ==
    /\ lastOp = "redo"
    /\ mark.pre = << items, archivedItems, history, future >>
    /\ items # << >>
    /\ history # << >>
    /\ history[Len(history)].items # items

\* C7: no handler ends in an exception raised by reading an item at an index
\* outside its list.
C7_NoHandlerThrows == ~threw

\* C8: right after a reload ('update') both selections are empty and no item
\* is being edited.
C8_ReloadResetsSelectionAndEdit ==
    lastOp = "update"
        => /\ CurSel = SelClear
           /\ CurArchSel = SelClear
           /\ editingId = NullId
           /\ ~isNewItem

\* C9: every item of the archive is checked.
C9_ArchiveAllChecked == \A k \in 1..Len(archivedItems) : archivedItems[k].isChecked

C9_UncheckedItemArchived ==
    /\ lastOp = "archive"
    /\ history # << >>
    /\ \E k \in 1..Len(archivedItems) :
         \E j \in 1..Len(history[Len(history)].items) :
            /\ history[Len(history)].items[j].id = archivedItems[k].id
            /\ ~history[Len(history)].items[j].isChecked

\* the indices of an indent-0 todo and of the indent-1 todos right after it
FamilyBlock(itemList, i) ==
    i .. (Min({ j \in (i + 1) .. (Len(itemList) - 1) :
                  ~(At(itemList, j).type = "todo" /\ At(itemList, j).indent = 1) }
              \cup { Len(itemList) }) - 1)

\* C10: archiving with one indent-0 todo selected (alone or with children of
\* its own) removes it and the indent-1 todos right after it from the active
\* list, the other active items keeping their order, and puts them, in their
\* order, indent kept and checked, before everything already archived.
C10_ArchiveMovesFamilyToHead ==
    [][\A i \in Idx(items) :
         (/\ lastOp' = "archive"
          /\ At(items, i).type = "todo"
          /\ At(items, i).indent = 0
          /\ \/ selectedIndices = {} /\ activeIndex = i
             \/ i \in selectedIndices /\ selectedIndices \subseteq FamilyBlock(items, i))
         => LET block == FamilyBlock(items, i)
                first == i + 1
                last == Max(block) + 1
            IN  /\ items' = SubSeq(items, 1, first - 1) \o SubSeq(items, last + 1, Len(items))
                /\ archivedItems' =
                       [k \in 1..(last - first + 1) |->
                           [items[first + k - 1] EXCEPT !.isChecked = TRUE]]
                       \o archivedItems]_vars

C10_FamilyArchivedBeforeOlder ==
    /\ lastOp = "archive"
    /\ history # << >>
    /\ history[Len(history)].archivedItems # << >>
    /\ Len(archivedItems) = Len(history[Len(history)].archivedItems) + 2
    /\ archivedItems[1].indent = 0
    /\ archivedItems[2].indent = 1
    /\ Len(items) > 0

\* the archive indices of the family of the item at i: the nearest indent-0
\* item at or above i with every item after it up to the next indent-0 item;
\* the item alone when no indent-0 item lies at or above it
ArchiveFamily(arch, i) ==
    LET heads == { j \in 0 .. i : At(arch, j).indent = 0 }
    IN  IF heads = {} THEN { i }
        ELSE { j \in Max(heads) .. (Len(arch) - 1) :
                 \A k \in (Max(heads) + 1) .. j : At(arch, k).indent # 0 }

\* a restore is called with a selection of items that are in the archive
RestoreCalled ==
    /\ lastOp' = "restore"
    /\ archivedSelectedIndices # {}
    /\ \A i \in archivedSelectedIndices : Has(archivedItems, i)

\* C11: a restore takes out of the archive, and puts into the active list,
\* exactly the families of the selected archive items: for a child its
\* nearest indent-0 item above with all of that item's children, for an
\* indent-0 item the item and its children, for a child with no indent-0 item
\* above it the child alone.
C11_RestoreTakesWholeFamily ==
    [][RestoreCalled
        => LET family == UNION { ArchiveFamily(archivedItems, i) :
                                   i \in archivedSelectedIndices }
               ids == { At(archivedItems, j).id : j \in family }
           IN  /\ IdsOf(archivedItems) \ IdsOf(archivedItems') = ids
               /\ IdsOf(items') \ IdsOf(items) = ids]_vars

C11_ChildRestoredWithFamily ==
    /\ lastOp = "restore"
    /\ history # << >>
    /\ archivedActiveIndex = 1
    /\ Len(history[Len(history)].archivedItems) >= 2
    /\ history[Len(history)].archivedItems[1].indent = 0
    /\ history[Len(history)].archivedItems[2].indent = 1
    /\ Len(items) = Len(history[Len(history)].items) + 2
    /\ items[Len(items) - 1].id = history[Len(history)].archivedItems[1].id
    /\ items[Len(items)].id = history[Len(history)].archivedItems[2].id

\* C12: after a restore the active list is the previous one followed by the
\* restored items in their archive order, unchecked and with their indent;
\* the archive is the previous one without them, in its order; the selection
\* is the index range of the appended items and activeIndex is its first.
C12_RestoreAppendsUnchecked ==
    [][RestoreCalled
        => LET gone == IdsOf(archivedItems) \ IdsOf(archivedItems')
               taken == SelectSeq(archivedItems, LAMBDA x : x.id \in gone)
           IN  /\ items' = items \o [k \in 1..Len(taken) |->
                                        [taken[k] EXCEPT !.isChecked = FALSE]]
               /\ archivedItems' = SelectSeq(archivedItems, LAMBDA x : x.id \notin gone)
               /\ gone # {}
               /\ selectedIndices' = Len(items) .. (Len(items') - 1)
               /\ activeIndex' = Len(items)]_vars

C12_RestoredRangeSelected ==
    /\ lastOp = "restore"
    /\ history # << >>
    /\ Len(history[Len(history)].items) >= 1
    /\ Len(items) = Len(history[Len(history)].items) + 2
    /\ selectedIndices = { Len(items) - 2, Len(items) - 1 }
    /\ activeIndex = Len(items) - 2
    /\ ~items[Len(items)].isChecked
    /\ items[Len(items)].indent = 1
    /\ Len(archivedItems) = Len(history[Len(history)].archivedItems) - 2

\* the Delete key is pressed on the active list with a selection of items
\* that are in it
DeleteCalled ==
    /\ lastOp' = "delete"
    /\ ~isArchiveActive
    /\ selectedIndices # {}
    /\ \A i \in selectedIndices : Has(items, i)

\* the selected indices and the indent-1 run after each selected indent-0 todo
DeleteTargets(list, sel) ==
    sel \cup { j \in Idx(list) :
                 \E i \in sel :
                    /\ At(list, i).type = "todo"
                    /\ At(list, i).indent = 0
                    /\ i < j
                    /\ \A k \in (i + 1) .. j :
                          At(list, k).type = "todo" /\ At(list, k).indent = 1 }

\* C13: Delete on the active list removes exactly the selected items and the
\* children of each selected indent-0 todo; the other items stay, in their
\* order.
C13_DeleteRemovesSelectionAndChildren ==
    [][DeleteCalled
        => LET gone == { At(items, j).id : j \in DeleteTargets(items, selectedIndices) }
           IN  items' = SelectSeq(items, LAMBDA x : x.id \notin gone)]_vars

C13_ParentDeletedWithChild ==
    /\ lastOp = "delete"
    /\ ~isArchiveActive
    /\ history # << >>
    /\ items # << >>
    /\ Len(history[Len(history)].items) = Len(items) + 2
    /\ \E k \in 1 .. (Len(items) + 1) :
         /\ history[Len(history)].items[k].indent = 0
         /\ history[Len(history)].items[k + 1].indent = 1
         /\ history[Len(history)].items[k].id \notin IdsOf(items)
         /\ history[Len(history)].items[k + 1].id \notin IdsOf(items)

\* where the cursor lands after a Delete: the smallest deleted index, clamped
\* to the list that is left
DeleteLanding ==
    LET first == Min(DeleteTargets(items, selectedIndices))
    IN  IF first < Len(items') - 1 THEN first ELSE Len(items') - 1

\* the landing item asks for a step back: a heading after only indent-0 items
\* were removed, a heading or an indent-0 item after only indent-1 items were
DeleteStepsBack ==
    LET targets == DeleteTargets(items, selectedIndices)
        landed == At(items', DeleteLanding)
    IN  \/ /\ \A i \in targets : At(items, i).indent = 0
           /\ landed.type = "heading"
        \/ /\ \A i \in targets : At(items, i).indent = 1
           /\ (landed.type = "heading" \/ landed.indent = 0)

\* C14 as stated: after a Delete the cursor is -1 with an empty selection
\* exactly when the list is empty; otherwise the landing item alone is
\* selected, or the item before it whenever a step back is asked for.
C14_CursorAfterDelete ==
    [][DeleteCalled
        => /\ (items' = << >>) <=> (activeIndex' = -1 /\ selectedIndices' = {})
           /\ items' # << >>
                => /\ selectedIndices' = { activeIndex' }
                   /\ activeIndex' = IF DeleteStepsBack THEN DeleteLanding - 1
                                     ELSE DeleteLanding]_vars

\* C14 amended: the step back is taken only from a landing index above 0.
C14_CursorAfterDeleteFloored ==
    [][DeleteCalled
        => /\ (items' = << >>) <=> (activeIndex' = -1 /\ selectedIndices' = {})
           /\ items' # << >>
                => /\ selectedIndices' = { activeIndex' }
                   /\ activeIndex' = IF DeleteStepsBack /\ DeleteLanding > 0
                                     THEN DeleteLanding - 1
                                     ELSE DeleteLanding]_vars

C14_SteppedBackFromHeading ==
    /\ lastOp = "delete"
    /\ ~isArchiveActive
    /\ history # << >>
    /\ activeIndex >= 0
    /\ selectedIndices = { activeIndex }
    /\ Len(items) > activeIndex + 1
    /\ items[activeIndex + 2].type = "heading"
    /\ Len(history[Len(history)].items) = Len(items) + 1
    /\ history[Len(history)].items[activeIndex + 2].indent = 0
    /\ history[Len(history)].items[activeIndex + 2].type = "todo"
    /\ history[Len(history)].items[activeIndex + 2].id \notin IdsOf(items)

\* Cmd+Up or Cmd+Down is pressed with at most one selected index and the
\* cursor on an item of the list
SingleMoveCalled ==
    /\ lastOp' \in { "moveUp", "moveDown" }
    /\ Cardinality(selectedIndices) <= 1
    /\ Has(items, activeIndex)

\* the list with the adjacent runs of m and of n items that start at p exchanged
Exchanged(list, p, m, n) ==
    Slice(list, 0, p) \o Slice(list, p + m, p + m + n)
        \o Slice(list, p, p + m) \o Slice(list, p + m + n, Len(list))

\* the run that starts at i is one whole block: a heading with its section,
\* or an indent-0 item with everything below it up to the next indent-0 item
WholeBlock(list, i, len) ==
    /\ At(list, i).indent = 0
    /\ \A k \in (i + 1) .. (i + len - 1) :
         /\ At(list, k).type # "heading"
         /\ At(list, i).type = "todo" => At(list, k).indent > 0
    /\ Has(list, i + len)
         => \/ At(list, i + len).type = "heading"
            \/ At(list, i).type = "todo" /\ At(list, i + len).indent = 0

\* C15: a single move of an indent-0 todo or a heading that changes the list
\* exchanges the moved block with the adjacent block on the side of the move,
\* nothing else moves, and the cursor follows the moved item.
C15_SingleMoveExchangesBlocks ==
    [][(SingleMoveCalled /\ At(items, activeIndex).indent = 0 /\ items' # items)
        => \E p \in Idx(items) : \E m, n \in 1 .. Len(items) :
             /\ p + m + n <= Len(items)
             /\ items' = Exchanged(items, p, m, n)
             /\ \/ /\ lastOp' = "moveDown"
                   /\ activeIndex = p
                   /\ WholeBlock(items, p, m)
                   /\ (At(items, p + m).indent = 0 \/ At(items, p + m).type = "heading")
                   /\ activeIndex' = p + n
                \/ /\ lastOp' = "moveUp"
                   /\ activeIndex = p + m
                   /\ WholeBlock(items, p + m, n)
                   /\ At(items, p).indent = 0
                   /\ activeIndex' = p
             /\ At(items', activeIndex').id = At(items, activeIndex).id]_vars

\* id of the nearest indent-0 item above index i, NullId when there is none
ParentIdOf(list, i) ==
    LET above == { j \in 0 .. (i - 1) : At(list, j).indent = 0 }
    IN  IF above = {} THEN NullId ELSE At(list, Max(above)).id

MultiMoveCalled ==
    /\ lastOp' \in { "moveUp", "moveDown" }
    /\ Cardinality(selectedIndices) > 1
    /\ \A i \in selectedIndices : Has(items, i)

\* the selection with the indent-1 run below each selected indent-0 todo
ExpandedSelection(list, sel) ==
    sel \cup { j \in Idx(list) :
                 \E i \in sel :
                    /\ At(list, i).type = "todo"
                    /\ At(list, i).indent = 0
                    /\ i < j
                    /\ \A k \in (i + 1) .. j : At(list, k).indent = 1 }

\* the four cases in which a move of several items is refused
MoveRefused(list, sel, up) ==
    LET block == ExpandedSelection(list, sel)
    IN  \/ block # Min(block) .. Max(block)
        \/ /\ At(list, Min(block)).indent = 1
           /\ \E i \in block : At(list, i).indent = 0
        \/ up /\ Min(block) = 0
        \/ /\ ~up
           /\ \E i \in (Max(block) + 1) .. (Len(list) - 1) :
                 At(list, i).type = "heading" /\ At(list, i).title = "Archive"

\* C17: a move of several selected items whose expanded selection has a gap,
\* or starts with a child while holding a parent, or starts at index 0 when
\* moving up, or has an "Archive" heading below it when moving down, leaves
\* the list, the archive and the selection as they are.
C17_RefusedMultiMoveChangesNothing ==
    [][(MultiMoveCalled /\ MoveRefused(items, selectedIndices, lastOp' = "moveUp"))
        => /\ items' = items
           /\ archivedItems' = archivedItems
           /\ selectedIndices' = selectedIndices
           /\ activeIndex' = activeIndex
           /\ anchorIndex' = anchorIndex]_vars

C17_MoveOfSplitSelectionRefused ==
    /\ lastOp = "moveDown"
    /\ ~threw
    /\ history # << >>
    /\ history[Len(history)].items = items
    /\ Cardinality(selectedIndices) > 1
    /\ \A i \in selectedIndices : Has(items, i)
    /\ Has(items, activeIndex)
    /\ ~isArchiveHeading(items, activeIndex)
    /\ ExpandedSelection(items, selectedIndices)
         # Min(selectedIndices) .. Max(ExpandedSelection(items, selectedIndices))
    /\ Max(ExpandedSelection(items, selectedIndices)) < Len(items) - 1

\* C18: a MoveToNextHeading or MoveToPrevHeading that moves no item changes
\* neither list nor the past and future stacks.
C18_NothingMovedChangesNothing ==
    [][(lastOp' \in { "moveNext", "movePrev" } /\ items' = items)
        => /\ archivedItems' = archivedItems
           /\ history' = history
           /\ future' = future]_vars

\* the selection MoveToNextHeading works on: the selected indices, or the
\* cursor alone when nothing is selected
HeadingMoveSelection ==
    IF selectedIndices = {} /\ activeIndex >= 0 THEN { activeIndex } ELSE selectedIndices

\* Cmd+Right is pressed with such a selection, all of it in the list
MoveNextCalled ==
    /\ lastOp' = "moveNext"
    /\ HeadingMoveSelection # {}
    /\ \A i \in HeadingMoveSelection : Has(items, i)

\* index of the indent-0 todo a child at index i belongs to, -1 when the
\* nearest indent-0 item above it is a heading or there is none
ParentIndexOf(list, i) ==
    LET above == { j \in 0 .. (i - 1) : At(list, j).indent = 0 }
    IN  IF above = {} THEN -1
        ELSE IF At(list, Max(above)).type = "heading" THEN -1
        ELSE Max(above)

\* the effective selection without headings: the selected todos that are not
\* children of a selected parent
EffectiveTodos(list, sel) ==
    { i \in sel : /\ At(list, i).type # "heading"
                  /\ ~(At(list, i).indent = 1 /\ ParentIndexOf(list, i) \in sel) }

\* the indices of the block of the item at index i: an indent-0 todo with the
\* items below it up to the next indent-0 item or heading, any other item
\* alone
BlockIndices(list, i) ==
    IF At(list, i).indent # 0 THEN { i }
    ELSE { j \in i .. (Len(list) - 1) :
             \A k \in (i + 1) .. j : At(list, k).indent > 0 /\ At(list, k).type # "heading" }

\* index of the first heading below the block of the item at index i, -1
\* when there is none
HeadingBelow(list, i) ==
    LET below == { j \in (Max(BlockIndices(list, i)) + 1) .. (Len(list) - 1) :
                     At(list, j).type = "heading" }
    IN  IF below = {} THEN -1 ELSE Min(below)

\* the effective-selection items that have a heading below their block and
\* that heading is not titled "Archive"
MovingRoots(list, sel) ==
    { i \in EffectiveTodos(list, sel) :
        /\ HeadingBelow(list, i) # -1
        /\ At(list, HeadingBelow(list, i)).title # "Archive" }

\* the items that arrive after the heading at index h, in their old order, a
\* child that moves alone promoted to indent 0
ArrivalsAt(list, sel, h) ==
    LET from == SortedAsc(UNION { BlockIndices(list, r) :
                                    r \in { q \in MovingRoots(list, sel) :
                                              HeadingBelow(list, q) = h } })
    IN  [k \in 1 .. Len(from) |->
            IF from[k] \in MovingRoots(list, sel) /\ At(list, from[k]).indent = 1
            THEN [At(list, from[k]) EXCEPT !.indent = 0]
            ELSE At(list, from[k])]

\* the list from index i on with every moving block taken out and put right
\* after the heading below it
RECURSIVE RelocatedFrom(_, _, _)
RelocatedFrom(list, sel, i) ==
    IF i >= Len(list) THEN << >>
    ELSE (IF i \in UNION { BlockIndices(list, r) : r \in MovingRoots(list, sel) }
          THEN << >>
          ELSE << At(list, i) >> \o ArrivalsAt(list, sel, i))
         \o RelocatedFrom(list, sel, i + 1)

DuplicateCalled ==
    /\ lastOp' = "duplicate"
    /\ selectedIndices # {}
    /\ \A i \in selectedIndices : Has(items, i)

\* the indices of the blocks of the effective selection, ascending
DuplicatedIndices ==
    SortedAsc(UNION { BlockIndices(items, r) : r \in EffectiveTodos(items, selectedIndices) })

\* the index right after the block of the highest selected index
DuplicateInsertIndex == Max(BlockIndices(items, Max(selectedIndices))) + 1

\* the list after the step is the list before it with one clone per
\* duplicated item put in at the insert index: same type, title, indent and
\* checked state, an id no item had before
ClonesInserted ==
    LET n == Len(DuplicatedIndices)
        at == DuplicateInsertIndex
    IN  /\ Len(items') = Len(items) + n
        /\ Slice(items', 0, at) = Slice(items, 0, at)
        /\ Slice(items', at + n, Len(items')) = Slice(items, at, Len(items))
        /\ \A k \in 1 .. n :
              LET copy == At(items', at + k - 1)
                  orig == At(items, DuplicatedIndices[k])
              IN  /\ copy.type = orig.type
                  /\ copy.title = orig.title
                  /\ copy.indent = orig.indent
                  /\ copy.isChecked = orig.isChecked
                  /\ copy.id \notin IdsOf(items)
        /\ Cardinality(IdsOf(items')) = Len(items')

\* C20: Duplicate puts fresh-id clones of the effective-selection blocks in
\* one run right after the block of the highest selected index and selects
\* exactly the clones.
C20_DuplicateInsertsAndSelectsClones ==
    [][DuplicateCalled
        => /\ ClonesInserted
           /\ selectedIndices' = DuplicateInsertIndex
                                   .. (DuplicateInsertIndex + Len(DuplicatedIndices) - 1)]_vars

\* Cmd+V is pressed with items on the clipboard and the cursor inside the
\* list or nowhere
PasteCalled ==
    /\ lastOp' = "paste"
    /\ clipboard # << >>
    /\ activeIndex < Len(items)

\* index of the first heading titled "Archive", -1 when there is none
SentinelIndex(list) ==
    LET found == { i \in Idx(list) : At(list, i).type = "heading" /\ At(list, i).title = "Archive" }
    IN  IF found = {} THEN -1 ELSE Min(found)

\* where a paste goes: after the children of an active indent-0 item, right
\* after any other active item, at the end without one, and in front of the
\* sentinel when that lies after it
PastePosition ==
    LET after == IF activeIndex < 0 THEN Len(items)
                 ELSE IF At(items, activeIndex).type = "todo"
                      THEN Max(BlockIndices(items, activeIndex)) + 1
                 ELSE activeIndex + 1
    IN  IF SentinelIndex(items) # -1 /\ after > SentinelIndex(items)
        THEN SentinelIndex(items) ELSE after

\* C21: Paste puts one clone per clipboard item, in clipboard order and with
\* ids no item has, in one run at the paste position; the items that were
\* there keep their order around the run.
C21_PasteInsertsClonesAtPosition ==
    [][PasteCalled
        => LET n == Len(clipboard)
               at == PastePosition
           IN  /\ Len(items') = Len(items) + n
               /\ Slice(items', 0, at) = Slice(items, 0, at)
               /\ Slice(items', at + n, Len(items')) = Slice(items, at, Len(items))
               /\ \A k \in 1 .. n :
                     /\ At(items', at + k - 1).type = clipboard[k].type
                     /\ At(items', at + k - 1).title = clipboard[k].title
                     /\ At(items', at + k - 1).isChecked = clipboard[k].isChecked
                     /\ At(items', at + k - 1).id \notin IdsOf(items)
               /\ Cardinality(IdsOf(items')) = Len(items')]_vars

C21_RunPastedAfterChildren ==
    /\ lastOp = "paste"
    /\ ~threw
    /\ history # << >>
    /\ Len(clipboard) >= 2
    /\ Len(items) = Len(history[Len(history)].items) + Len(clipboard)
    /\ activeIndex >= 2
    /\ activeIndex + Len(clipboard) < Len(items)
    /\ items[activeIndex].indent = 1
    /\ items[activeIndex - 1].indent = 0
    /\ items[activeIndex - 1].type = "todo"
    /\ items[activeIndex + 1].id \notin IdsOf(history[Len(history)].items)
    /\ items[activeIndex + 1].title = clipboard[1].title

\* scanning upward from position at, the list start or a heading comes before
\* any indent-0 todo
NoParentTodoAbove(list, at) ==
    LET stops == { j \in 0 .. (at - 1) : At(list, j).type = "heading" \/ At(list, j).indent = 0 }
    IN  stops = {} \/ At(list, Max(stops)).type = "heading"

\* the run inserted at position at has the indents of the originals, except
\* that a first item of indent 1 without a parent todo above has indent 0
IndentsRepaired(originals, at) ==
    \A k \in 1 .. Len(originals) :
        At(items', at + k - 1).indent =
            IF k = 1 /\ originals[1].indent = 1 /\ NoParentTodoAbove(items, at)
            THEN 0 ELSE originals[k].indent

\* the items Cmd+D copies, as duplicateItems collects them (a child is left
\* out when the nearest indent-0 item above it, heading or todo, is selected)
DuplicateOriginals ==
    blocksOf(items, collectIndicesToProcess(items, selectedIndices, TRUE))

\* the index at which Cmd+D puts the copies
DuplicatePosition ==
    Max(selectedIndices) + 1 + getChildCount(items, Max(selectedIndices))

\* C22: after Paste and after Duplicate the first inserted item has indent 0
\* when it had indent 1 and no parent todo is above the insert position
\* before a heading or the list start; every other inserted item keeps its
\* indent.
C22_FirstInsertedItemRepaired ==
    [][/\ PasteCalled => IndentsRepaired(clipboard, PastePosition)
       /\ DuplicateCalled
            => IndentsRepaired(DuplicateOriginals, DuplicatePosition)]_vars

C22_ChildPastedUnderHeadingPromoted ==
    /\ lastOp = "paste"
    /\ ~threw
    /\ history # << >>
    /\ clipboard[1].indent = 1
    /\ activeIndex >= 1
    /\ Len(items) = Len(history[Len(history)].items) + Len(clipboard)
    /\ items[activeIndex].type = "heading"
    /\ items[activeIndex + 1].indent = 0
    /\ items[activeIndex + 1].id \notin IdsOf(history[Len(history)].items)

\* Tab or Shift+Tab is pressed on the active list with a selection of items
\* that are in it
IndentCalled ==
    /\ lastOp' \in { "tab", "shiftTab" }
    /\ ~isArchiveActive
    /\ selectedIndices # {}
    /\ \A i \in selectedIndices : Has(items, i)

\* the indent the item at index i has after Indent(delta)
IndentAfter(list, sel, i, delta) ==
    IF /\ i \in sel
       /\ At(list, i).type = "todo"
       /\ At(list, i).indent + delta \in 0 .. 1
       /\ delta > 0 => (i # 0 /\ At(list, i - 1).type # "heading")
    THEN At(list, i).indent + delta
    ELSE At(list, i).indent

\* C23: Indent changes only the indent of selected todos, and not when the
\* result would leave 0..1 or when an increase is asked for at index 0 or
\* right after a heading; headings, unselected items and the archive stay as
\* they are.
C23_IndentChangesSelectedTodosOnly ==
    [][IndentCalled
        => /\ Len(items') = Len(items)
           /\ archivedItems' = archivedItems
           /\ \A i \in Idx(items) :
                 At(items', i) =
                     [At(items, i) EXCEPT !.indent =
                         IndentAfter(items, selectedIndices, i,
                                     IF lastOp' = "tab" THEN 1 ELSE -1)]]_vars

C23_IndentAcceptedAndRejected ==
    /\ lastOp = "tab"
    /\ history # << >>
    /\ Len(history[Len(history)].items) = Len(items)
    /\ \E k, j \in selectedIndices \cap Idx(items) :
         /\ At(items, k).indent = 1
         /\ At(history[Len(history)].items, k).indent = 0
         /\ At(items, j).type = "todo"
         /\ At(items, j).indent = 0
         /\ j > 0
         /\ At(items, j - 1).type = "heading"

\* C24: when Tab has just indented the single selected indent-0 todo, a
\* Shift+Tab on the same selection gives every item the indent it had before
\* the Tab.
C24_IndentThenDedentRestores ==
    [][(/\ lastOp = "tab"
        /\ lastOp' = "shiftTab"
        /\ history # << >>
        /\ Cardinality(selectedIndices) = 1
        /\ \A k \in selectedIndices :
              /\ Has(history[Len(history)].items, k)
              /\ At(history[Len(history)].items, k).type = "todo"
              /\ At(history[Len(history)].items, k).indent = 0
              /\ k # 0
              /\ At(history[Len(history)].items, k - 1).type # "heading")
        => /\ Len(items') = Len(history[Len(history)].items)
           /\ \A i \in Idx(items') :
                 At(items', i).indent = At(history[Len(history)].items, i).indent]_vars

C24_IndentedThenDedented ==
    /\ lastOp = "shiftTab"
    /\ Len(history) >= 2
    /\ Cardinality(selectedIndices) = 1
    /\ history[Len(history) - 1].items = items
    /\ \A k \in selectedIndices :
          /\ Has(items, k)
          /\ k > 0
          /\ At(items, k).indent = 0
          /\ At(items, k).type = "todo"
          /\ At(items, k - 1).type = "todo"
          /\ At(history[Len(history)].items, k).indent = 1

\* C25: every heading of the active list has indent 0.
C25_HeadingsHaveIndentZero ==
    \A i \in Idx(items) : At(items, i).type = "heading" => At(items, i).indent = 0

\* C26: a new item that is abandoned right after addItem, with Escape or with
\* Enter on an empty title, leaves the lists and the past stack as they were
\* before addItem, and no edit session.
C26_AbandonedNewItemLeavesNoTrace ==
    [][(/\ mark.phase = "added"
        /\ isNewItem
        /\ EditorOpen
        /\ lastOp' \in { "editEscape", "editEnter" })
        => /\ items' = mark.pre[1]
           /\ archivedItems' = mark.pre[2]
           /\ history' = mark.pre[3]
           /\ editingId' = NullId
           /\ ~isNewItem']_vars

\* C27: committing the editor of an existing item with Enter or by blur, to a
\* non-empty title other than the one the item had, pushes exactly one snapshot
\* that still holds the old title; committing the same title pushes none.
C27_CommitSnapshotsOldTitle ==
    [][(/\ lastOp' \in { "editEnter", "editBlur" }
        /\ EditorOpen
        /\ ~isNewItem
        /\ Len(items') = Len(items))
        => LET itemIndex == IndexOfId(items, editingId)
           IN  IF At(items', itemIndex).title # At(items, itemIndex).title
               THEN /\ history' = savedHistory(history, items, archivedItems)
                    /\ history'[Len(history')].items[itemIndex + 1].title
                           = At(items, itemIndex).title
               ELSE history' = history]_vars

\* C28: leaving the editor of an existing item with Escape leaves the active
\* list, the archive and both history stacks as they were when the editor was
\* opened, and no edit session, whatever was typed and whichever of Tab and
\* Shift+Tab was pressed in the editor.
C28_CancelledEditChangesNothing ==
    [][(/\ mark.phase = "editing"
        /\ EditorOpen
        /\ ~isNewItem
        /\ lastOp' = "editEscape")
        => /\ << items', archivedItems', history', future' >> = mark.pre
           /\ editingId' = NullId]_vars

\* the positions of the active list whose item carries the editing id
EditingItems == { i \in 0..(Len(items) - 1) : At(items, i).id = editingId }

\* this handler opened the editor of an item
EditStarted == editingId' # NullId /\ editingId' # editingId

\* this handler took the commit or the cancel path of the open editor; a new
\* item it removed took its snapshot from the past stack with it, a new item
\* it kept has a title
EditResolved ==
    /\ lastOp' \in { "editEnter", "editBlur", "editEscape" }
    /\ editingId' = NullId
    /\ ~isNewItem'
    /\ isNewItem => IF IndexOfId(items', editingId) = -1
                    THEN history' = popLast(history)
                    ELSE At(items', IndexOfId(items', editingId)).title # ""

C30_NoHeadingInMultiSelection ==
    Cardinality(selectedIndices) > 1
        => \A i \in selectedIndices : Has(items, i) => At(items, i).type # "heading"

\* C31: no id occurs twice in the active list and the archive list taken
\* together, and every item that Paste or Duplicate puts in carries an id
\* that no item of the two lists and of the clipboard had.
C31_IdsUnique ==
    /\ [](Cardinality(IdsOf(items \o archivedItems)) = Len(items) + Len(archivedItems))
    /\ [][lastOp' \in { "paste", "duplicate" }
            => LET inserted == IdsOf(items') \ IdsOf(items)
               IN  /\ Cardinality(inserted) = Len(items') - Len(items)
                   /\ inserted \cap (IdsOf(archivedItems) \cup IdsOf(clipboard)) = {}
                   /\ clipboard' = clipboard]_vars

C31_PastedBesideArchive ==
    /\ lastOp = "paste"
    /\ ~threw
    /\ clipboard # << >>
    /\ archivedItems # << >>
    /\ IdsOf(clipboard) \cap IdsOf(items) # {}
    /\ history # << >>
    /\ Len(items) = Len(history[Len(history)].items) + Len(clipboard)

\* a text was parsed and the result written back
TextRoundTrip == conv.phase = "text" /\ conv.round = 2

ItemLine(line) ==
    \/ line.head = "## " /\ line.text # "Archive"
    \/ line.head \in { "- [ ] ", "- [x] " }

\* the text is in the form stringifyItems writes: heading titles are not empty
\* and have no outer white space; a note block comes right after the line of
\* an item, has a line that is not blank, and its lines are indented by four
\* spaces and have no other outer white space; an Archive section holds a todo
\* and only checked todos
WrittenForm(text) ==
    /\ \A k \in 1..Len(text) :
          text[k].head = "## " => text[k].text # "" /\ Trim(text[k].text) = text[k].text
    /\ \A k \in 1..Len(text) :
          text[k].head = FencePlane =>
            /\ k > 1 /\ ItemLine(text[k - 1])
            /\ \E c \in (k + 1)..Len(text) :
                  /\ text[c].head = Fence
                  /\ \A j \in (k + 1)..(c - 1) :
                        /\ text[j].head = ""
                        /\ text[j].lead = Spaces(4)
                        /\ Trim(text[j].text) = text[j].text
                  /\ \E j \in (k + 1)..(c - 1) : text[j].text # ""
    /\ \A a \in 1..Len(text) :
          text[a] = ArchiveLine =>
            /\ \E k \in (a + 1)..Len(text) : text[k].head = "- [x] "
            /\ \A k \in (a + 1)..Len(text) : text[k].head # "- [ ] "

Shape(list) ==
    [k \in 1..Len(list) |-> << list[k].type, list[k].title, list[k].indent, list[k].isChecked >>]

\* C33: parsing what stringifyItems wrote for an active list without a heading
\* titled "Archive" and an archive list of checked todos gives two lists with
\* the types, titles, indents and checked states of the given ones.
C33_ListsRoundTrip ==
    (conv.phase = "lists" /\ conv.round = 2)
        => /\ Shape(conv.lists.items) = Shape(conv.origin.items)
           /\ Shape(conv.lists.archivedItems) = Shape(conv.origin.archivedItems)

\* cursor, anchor and selection are -1 or indices of the list
InRange(list, sel) ==
    /\ sel.activeIndex \in -1..(Len(list) - 1)
    /\ sel.anchorIndex \in -1..(Len(list) - 1)
    /\ sel.selectedIndices \subseteq 0..(Len(list) - 1)

\* C34: after every handler the cursor, the anchor and the selection of the
\* active list are indices of items or -1, and those of the archive are
\* indices of archivedItems or -1.
C34_SelectionInRange ==
    /\ InRange(items, CurSel)
    /\ InRange(archivedItems, CurArchSel)

\* C35: a handler other than undo and redo that leaves the active list and
\* the archive as they were leaves the past stack and the redo stack as they
\* were.
C35_NoChangeNoHistory ==
    [][(/\ lastOp' \notin { "undo", "redo" }
        /\ items' = items
        /\ archivedItems' = archivedItems)
        => history' = history /\ future' = future]_vars

\* the id, type, title and indent of the items of a list, in order
Core(list) ==
    [k \in 1..Len(list) |-> << list[k].id, list[k].type, list[k].title, list[k].indent >>]

\* the items of the first list whose id is not in the second, in order
RECURSIVE ItemsGone(_, _)
ItemsGone(list, kept) ==
    IF list = << >> THEN << >>
    ELSE (IF list[1].id \in IdsOf(kept) THEN << >> ELSE << list[1] >>)
         \o ItemsGone(Tail(list), kept)

\* C36: after Cut the clipboard holds, in list order, a copy of every item
\* the Cut removed from the active list and nothing else.
C36_CutKeepsWhatItRemoves ==
    [][(lastOp' = "cut" /\ ~threw')
        => Core(clipboard') = Core(ItemsGone(items, items'))]_vars

\* the structural invariants of the outline: indents are 0 or 1, a heading
\* has indent 0, a child has a parent todo above it in its section, and
\* nothing follows a heading titled "Archive"
WellFormed(list) ==
    \A i \in 0..(Len(list) - 1) :
        /\ At(list, i).indent \in { INDENT_PARENT, INDENT_CHILD }
        /\ At(list, i).type = "heading" => At(list, i).indent = INDENT_PARENT
        /\ (At(list, i).type = "todo" /\ At(list, i).indent = INDENT_CHILD)
              => ParentIndexOf(list, i) # -1
        /\ isArchiveHeading(list, i) => i = Len(list) - 1

\* the last handler was a Move of the single selected item that took its
\* snapshot and changed the list, and this handler is the Move in the other
\* direction; the snapshot on top of the past stack is the list before the
\* first Move
MovedThenMovedBack ==
    /\ << lastOp, lastOp' >> \in { << "moveUp", "moveDown" >>, << "moveDown", "moveUp" >> }
    /\ ~threw
    /\ Cardinality(selectedIndices) = 1
    /\ activeIndex >= 0
    /\ ~isArchiveHeading(items, activeIndex)
    /\ history # << >>
    /\ history[Len(history)].items # items
    /\ WellFormed(history[Len(history)].items)

\* C37: a Move of a single selected item that changed a well-formed list,
\* followed at once by the Move in the other direction, gives back the list
\* and leaves the cursor on the same item.
C37_MoveThenMoveBackRestores ==
    [][MovedThenMovedBack
        => /\ items' = history[Len(history)].items
           /\ activeIndex' >= 0
           /\ At(items', activeIndex').id = At(items, activeIndex).id]_vars

\* a parent todo with its child has been carried over a neighbour and back:
\* the two snapshots on the past stack are the list as it is now and the
\* same items in another order
C37_BlockCarriedThereAndBack ==
    /\ lastOp \in { "moveUp", "moveDown" }
    /\ ~threw
    /\ steps = MaxSteps - MaxLoadedSteps + 2
    /\ Len(history) = 2
    /\ history[1].items = items
    /\ history[2].items # items
    /\ IdsOf(history[2].items) = IdsOf(items)
    /\ WellFormed(items)
    /\ selectedIndices = { activeIndex }
    /\ activeIndex >= 0
    /\ getItemWithChildrenCount(items, activeIndex) > 1

\* C38: lists that the webview sent with updateItems, with no updateItems
\* after them, are eventually what the provider writes to the task file.
C38_SentListsAreWritten ==
    \A lists \in HostLists :
        (probe.sent = << lists >>)
            ~> (\/ probe.sent # << lists >>
                \/ probe.saved = << stringifyItems(lists.items, lists.archivedItems) >>)

\* C39: a text another writer put in the task file while the watcher was
\* active, still in the file and still watched, is eventually read and
\* posted to the webview: _ignoreNextChange does not suppress its reload.
C39_ForeignChangeIsReloaded ==
    \A text \in ForeignTexts :
        (probe.foreign = << text >>)
            ~> (probe.foreign # << text >> \/ probe.reloaded = << text >>)

====
